---- MODULE Spec2Model ----
(***************************************************************************)
(* Verification model of the real-time control plane of always-on-ai:      *)
(*   - TriggerManager      (src/triggers/manager.py) with the execute      *)
(*     wrapper VoiceAssistant.start installs (src/main.py)                 *)
(*   - AudioStreamManager  (src/audio_stream.py)                           *)
(*   - ConnectionCoordinator (src/core/connection_coordinator.py)          *)
(* Each subsystem has its own specification (SpecTrig, SpecBus, SpecCoord) *)
(* over the shared variable list; a specification leaves the variables of  *)
(* the other subsystems at their constructed values.  SpecSelect applies   *)
(* the winner selection to any set of triggers, SpecBuffer fills the       *)
(* transition buffer beyond its capacity, SpecSwitch runs the switch to    *)
(* the assistant next to the capture loop, and SpecLifecycle adds          *)
(* shutdown() and handle_connection_error() to the coordinator.  SpecPause *)
(* and SpecStop are the audio bus with pause/resume callers and with       *)
(* consumer calls that take time, SpecWorker is the trigger pipeline fed   *)
(* by one thread, SpecIssue is the issuing of requests by two threads, and *)
(* SpecShutdown runs VoiceAssistant.stop next to the pipeline.             *)
(* SpecQueue is the RequestQueue of the TriggerPipeline                    *)
(* (src/triggers/request_queue.py, pipeline.py), SpecAdmit hands           *)
(* transcriptions to process_transcription while triggers are enabled and  *)
(* disabled, SpecStartShutdown runs shutdown() next to one switching       *)
(* thread, and SpecState is the StateManager (src/core/state_manager.py).  *)
(***************************************************************************)
EXTENDS Integers, Sequences, FiniteSets, TLC

(***************************************************************************)
(* Bounds of the model                                                     *)
(***************************************************************************)
MaxRequests == 2

Producers == {"p1", "p2"}

Texts == { <<>>, <<" ">>, <<"<", " ">>, <<"x">>, <<"b">>, <<"t", "<">>, <<" ", "B", "t">> }

Confidences == {5, 9}

\* registrations the bus holds at a time, active and paused
MaxConsumers == 2
\* calls of start_assistant_mode/end_assistant_mode in one run
MaxCalls == 3
\* chunks the capture loop hands to the buffering consumer during one transition
MaxBuffered == 1
Chunks == {"chunk"}
CoordThreads == {"t1", "t2"}

\* consumers registered by callers other than the coordinator
BusConsumers == {"c1", "c2"}

\* chunks the capture loop reads in the switch specification and in the
\* overflow specification
MaxChunks == 2
MaxStream == 102
\* the thread that runs _handle_assistant_trigger in the switch specification
SwitchThreads == {"t1"}

\* triggers add_trigger registers in the selection specification, and the
\* priorities they are drawn from
MaxCandidates == 3
Priorities == {50, 90}

\* requests added to the RequestQueue
MaxAdded == 3

\* transcriptions handed to custom_process
MaxTranscriptions == 3

\* calls of the StateManager and the threads that make them
MaxStateCalls == 3
StateThreads == {"s1", "s2"}

(***************************************************************************)
(* Program constants                                                       *)
(***************************************************************************)
DEFAULT_MAX_WORKERS == 3

\* main.py registers AssistantTrigger, then TestTrigger
triggers == <<"AssistantTrigger", "TestTrigger">>

TriggerNames == {triggers[i] : i \in 1..Len(triggers)}

priority == [t \in TriggerNames |-> IF t = "AssistantTrigger" THEN 95 ELSE 70]

\* keywords, one character standing for one keyword of the trigger
keywords == [t \in TriggerNames |-> IF t = "AssistantTrigger" THEN {"b"} ELSE {"t"}]

\* what trigger.action() returns: the assistant trigger asks for the mode
\* switch, every other trigger returns a spoken text response
ActionResponse(t) == IF t = "AssistantTrigger" THEN "start_assistant" ELSE "text"

RequestIds == 1..MaxRequests

NoRequest == [id |-> 0, number |-> 0, triggers |-> <<>>]

(***************************************************************************)
(* Pure helpers                                                            *)
(***************************************************************************)
SafeChars == {"b", "t", "x", "B", "T", " "}

lower(c) == IF c = "B" THEN "b" ELSE IF c = "T" THEN "t" ELSE c

RECURSIVE FilterSeq(_, _)
FilterSeq(s, keep) ==
    IF s = <<>> THEN <<>>
    ELSE IF Head(s) \in keep THEN <<Head(s)>> \o FilterSeq(Tail(s), keep)
         ELSE FilterSeq(Tail(s), keep)

RECURSIVE SplitJoin(_, _)
\* ' '.join(text.split()): drop leading/trailing blanks, collapse runs
SplitJoin(s, pendingBlank) ==
    IF s = <<>> THEN <<>>
    ELSE IF Head(s) = " " THEN SplitJoin(Tail(s), TRUE)
         ELSE (IF pendingBlank THEN <<" ">> ELSE <<>>) \o <<Head(s)>>
              \o SplitJoin(Tail(s), FALSE)

strip(s) == FilterSeq(s, {c \in SafeChars \cup {"<"} : c # " "})

NormalizeWhitespace(s) ==
    LET j == SplitJoin(s, FALSE)
    IN IF j # <<>> /\ Head(j) = " " THEN Tail(j) ELSE j

sanitize_text(text) ==
    IF strip(text) = <<>> THEN <<>>
    ELSE NormalizeWhitespace(FilterSeq(text, SafeChars))

check_keywords(t, text) ==
    \E i \in 1..Len(text) : lower(text[i]) \in keywords[t]

SeqToSet(s) == {s[i] : i \in 1..Len(s)}

(***************************************************************************)
(* State                                                                   *)
(***************************************************************************)
VARIABLES
    \* TriggerManager
    request_counter,         \* _request_counter
    latest_request_number,   \* _latest_request_number
    request_id_to_number,    \* _request_id_to_number, 0 = no entry
    request_queue,           \* _request_queue
    active_requests,         \* keys of _active_requests
    future,                  \* state of the validation future per request and trigger
    custom_execute_installed,\* VoiceAssistant.start replaced _execute_trigger
    pcP, pReq,               \* process_transcription callers
    pcW, request, done, best,\* worker thread of _process_request_queue
    supersededAtWait,        \* requests that were no longer the latest when their wait() returned
    latestAtCheck,           \* _latest_request_number as read by the re-check of the held request
    actionLog,               \* trigger.action() invocations per request, in order
    discarded,               \* requests dropped at the post-wait re-check
    \* AudioStreamManager
    running, consumers, failed_consumers, paused_consumers, is_paused,
    pcL,                     \* position of the capture thread in _audio_loop
    consumers_copy, failed_copy, idx,  \* locals of _audio_loop
    pcS,                     \* position of the thread inside stop()
    received,                \* per consumer: invocations with the chunk the loop holds
    removed,                 \* per consumer: what remove_consumer last did to it
    raised,                  \* per consumer: has it raised, on the chunk the loop holds or on an earlier one
    raisedNow,               \* a consumer raised on the chunk the loop holds
    atPause,                 \* the consumer list as it was when the bus was paused, <<>> while not paused
    noop_calls,              \* pause_microphone()/resume_microphone() calls that took the early return
    \* ConnectionCoordinator
    current_mode, buffering, buffer_consumer, transition_buffer,
    buffer_seq,              \* number of buffer_audio closures created so far
    session_active,          \* realtime_session.is_active()
    transcriber_paused,      \* transcriber.paused
    reconnects,              \* TranscriberReconnect threads that have not finished
    pcMain,                  \* position of VoiceAssistant.start
    pcC, op,                 \* per calling thread: position and method it is in
    returned,                \* per calling thread: outcome of its last finished call
    effects,                 \* per calling thread: its call has fired on_mode_change, the first thing it does once admitted
    failure,                 \* per calling thread: the step of its call that failed
    race,                    \* the calls in progress are two start_assistant_mode() entered in TRANSCRIPTION
    nCalls,                  \* calls of start_assistant_mode/end_assistant_mode so far
    session_start_failed,    \* some start_session() has failed
    captured,                \* chunks the capture loop has read so far; chunk k is the k-th
    delivered,               \* per captured chunk: the consumers the loop passed it to
    input_active,            \* RealtimeAudioHandler.input_active
    live_audio,              \* chunks _handle_input_audio passed to the session, in order
    buffer_start,            \* value of captured when the current buffering began
    flushed,                 \* chunks _stop_audio_buffering passed to the session in the current transition
    flushes, discards,       \* runs of the flush loop and of the clear loop in the current transition
    pcSd,                    \* position of the thread inside shutdown()
    pcR,                     \* position of the thread handle_connection_error starts
    \* winner selection of _process_single_request over any registered triggers
    added_triggers,          \* self.triggers: the priority of each trigger, in add_trigger order
    validated_list,          \* the list validated_triggers, in the order the loop over done built it
    best_trigger,            \* index in added_triggers of the trigger max() returned, 0 before
    pcSel,                   \* position of the selection
    \* VoiceAssistant.stop and TriggerManager.shutdown
    pcStop,                  \* position of the thread inside VoiceAssistant.stop
    executor_shutdown,       \* executor.shutdown() was called: submit raises RuntimeError
    \* RequestQueue and TriggerPipeline
    rq_counter,              \* RequestQueue._request_counter
    rq_queue,                \* RequestQueue._queue: the request_number of each queued request
    pcAdd,                   \* position of the thread inside add_request
    pcQ,                     \* position of the TriggerRequestProcessor thread
    rq_request,              \* the request the processor thread holds
    newer_requests, should_skip,  \* locals of _should_skip_request
    processed,               \* the requests the process callback was invoked with, in order
    validating_since,        \* _request_counter when the validations of the held request began
    executed,                \* the requests for which a trigger was executed
    \* the triggers' enabled flags and the transcriptions handed to custom_process
    enabled,                 \* trigger.enabled of each registered trigger
    transcriptions,          \* calls of custom_process so far
    last_text,               \* the text of the latest call
    \* StateManager
    current_state,           \* self.current_state
    state_lock,              \* the thread that holds state_lock, "none" when free
    transitions,             \* self.transitions: <<from_state, to_state>> of each record
    error_count,             \* self.error_count
    pcSm,                    \* position of each thread inside the StateManager
    sm_method,               \* the method each thread called
    sm_new, sm_old,          \* new_state and old_state of the call of each thread
    sm_returned,             \* what the call of each thread returned
    sm_calls,                \* calls made so far
    last_notified            \* <<old_state, new_state>> the listeners were last invoked with

trigVars == <<request_counter, latest_request_number, request_id_to_number,
              request_queue, active_requests, future, custom_execute_installed,
              pcP, pReq, pcW, request, done, best, supersededAtWait, latestAtCheck,
              actionLog, discarded>>

busVars == <<running, consumers, failed_consumers, paused_consumers, is_paused,
             pcL, consumers_copy, failed_copy, idx, pcS,
             received, removed, raised, raisedNow, atPause, noop_calls>>

busLoopVars == <<running, paused_consumers, is_paused, pcL, consumers_copy,
                 failed_copy, idx, pcS, received, raisedNow, atPause, noop_calls>>

coordVars == <<current_mode, buffering, buffer_consumer, transition_buffer, buffer_seq,
               session_active, transcriber_paused, reconnects, pcMain, pcC, op,
               returned, effects, failure, race, nCalls, session_start_failed,
               captured, delivered, input_active, live_audio, buffer_start,
               flushed, flushes, discards, pcSd, pcR>>

selVars == <<added_triggers, validated_list, best_trigger, pcSel>>

stopVars == <<pcStop, executor_shutdown>>

queueVars == <<rq_counter, rq_queue, pcAdd, pcQ, rq_request, newer_requests,
               should_skip, processed, validating_since, executed>>

admitVars == <<enabled, transcriptions, last_text>>

stateVars == <<current_state, state_lock, transitions, error_count, pcSm, sm_method,
               sm_new, sm_old, sm_returned, sm_calls, last_notified>>

vars == <<trigVars, busVars, coordVars, selVars, stopVars, queueVars, admitVars, stateVars>>

nonStateVars == <<trigVars, busVars, coordVars, selVars, stopVars, queueVars, admitVars>>

nonQueueVars == <<trigVars, busVars, coordVars, selVars, stopVars, admitVars, stateVars>>

nonTrigVars == <<busVars, coordVars, selVars, stopVars, queueVars, admitVars, stateVars>>

nonBusVars == <<trigVars, coordVars, selVars, stopVars, queueVars, admitVars, stateVars>>

\* what no step of start_assistant_mode/end_assistant_mode touches
nonCallVars == <<trigVars, selVars, pcSd, pcR, stopVars, queueVars, admitVars, stateVars>>

nonCoordVars == <<trigVars, selVars, stopVars, queueVars, admitVars, stateVars>>

nonSelVars == <<trigVars, busVars, coordVars, stopVars, queueVars, admitVars, stateVars>>

(***************************************************************************)
(* TriggerManager                                                          *)
(***************************************************************************)
\* a future: its state and, once finished, the value _run_validation_only
\* returned (0 stands for None, otherwise the confidence of the result)
Fut(st, res) == [state |-> st, result |-> res]

NoFuture == Fut("none", 0)

ValidationResults == {0} \cup Confidences

Finished(f) == f.state \in {"cancelled", "finished"}

\* Future.cancel(): only a future that has not started can be cancelled
cancel(f) == IF f.state = "queued" THEN Fut("cancelled", 0) ELSE f

\* the worker drops its references to the futures of a request it is done
\* with: only a call still running in the pool remains
release(f) == IF f.state = "running" THEN f ELSE NoFuture

InitTrig ==
    /\ request_counter = 0
    /\ latest_request_number = 0
    /\ request_id_to_number = [r \in RequestIds |-> 0]
    /\ request_queue = <<>>
    /\ active_requests = {}
    /\ future = [r \in RequestIds |-> [t \in TriggerNames |-> NoFuture]]
    /\ custom_execute_installed = FALSE
    /\ pcP = [p \in Producers |-> "idle"]
    /\ pReq = [p \in Producers |-> NoRequest]
    /\ pcW = "get"
    /\ request = NoRequest
    /\ done = {}
    /\ best = "none"
    /\ supersededAtWait = {}
    /\ latestAtCheck = 0
    /\ actionLog = [r \in RequestIds |-> <<>>]
    /\ discarded = {}

\* VoiceAssistant.start: trigger_manager._execute_trigger = custom_execute
install_custom_execute ==
    /\ ~custom_execute_installed
    /\ custom_execute_installed' = TRUE
    /\ UNCHANGED <<request_counter, latest_request_number, request_id_to_number,
                   request_queue, active_requests, future, pcP, pReq, pcW, request,
                   done, best, supersededAtWait, latestAtCheck, actionLog, discarded>>
    /\ UNCHANGED nonTrigVars

\* a counter that is read under _request_lock without being advanced
next_request_number_not_advanced == IF request_counter = 0 THEN 1 ELSE request_counter

\* process_transcription: self._request_counter += 1 under _request_lock
next_request_number == request_counter + 1

\* a keyword loop that does not look at trigger.enabled
matching_triggers_ignoring_enabled(text) ==
    SelectSeq(triggers, LAMBDA t : check_keywords(t, text))

\* the keyword loop of process_transcription: disabled triggers are skipped
RECURSIVE MatchFrom(_, _)
MatchFrom(i, text) ==
    IF i > Len(triggers) THEN <<>>
    ELSE (IF enabled[triggers[i]] /\ check_keywords(triggers[i], text)
          THEN <<triggers[i]>> ELSE <<>>)
         \o MatchFrom(i + 1, text)

matching_triggers(text) == MatchFrom(1, text)

\* process_transcription up to the release of _request_lock
_original_process(p, text) ==
    /\ pcP[p] = "idle"
    /\ request_counter < MaxRequests
    /\ LET clean == sanitize_text(text)
           matching == matching_triggers(clean)
           n == next_request_number
       IN IF clean = <<>> \/ matching = <<>>
          THEN UNCHANGED trigVars
          ELSE /\ request_counter' = n
               /\ latest_request_number' = n
               /\ request_id_to_number' = [request_id_to_number EXCEPT ![n] = n]
               /\ pReq' = [pReq EXCEPT ![p] = [id |-> n, number |-> n, triggers |-> matching]]
               /\ pcP' = [pcP EXCEPT ![p] = "cancel"]
               /\ UNCHANGED <<request_queue, active_requests, future,
                              custom_execute_installed, pcW, request, done, best,
                              supersededAtWait, latestAtCheck, actionLog, discarded>>

process_transcription(p, text) ==
    /\ _original_process(p, text)
    /\ UNCHANGED nonTrigVars

_cancel_pending_validations(p) ==
    /\ pcP[p] = "cancel"
    /\ future' = [r \in RequestIds |->
                    IF r \in active_requests
                    THEN [t \in TriggerNames |-> cancel(future[r][t])]
                    ELSE future[r]]
    /\ active_requests' = {}
    /\ pcP' = [pcP EXCEPT ![p] = "put"]
    /\ UNCHANGED <<request_counter, latest_request_number, request_id_to_number,
                   request_queue, custom_execute_installed, pReq, pcW, request,
                   done, best, supersededAtWait, latestAtCheck, actionLog, discarded>>
    /\ UNCHANGED nonTrigVars

queue_put(p) ==
    /\ pcP[p] = "put"
    /\ request_queue' = Append(request_queue, pReq[p])
    /\ pcP' = [pcP EXCEPT ![p] = "idle"]
    /\ pReq' = [pReq EXCEPT ![p] = NoRequest]
    /\ UNCHANGED <<request_counter, latest_request_number, request_id_to_number,
                   active_requests, future, custom_execute_installed, pcW, request,
                   done, best, supersededAtWait, latestAtCheck, actionLog, discarded>>
    /\ UNCHANGED nonTrigVars

\* a worker that starts on every request it dequeues
is_latest_at_dequeue_any(req) == TRUE

\* worker: dequeue and the staleness check before any work
is_latest_at_dequeue(req) == req.number = latest_request_number

_process_request_queue ==
    /\ pcW = "get"
    /\ request_queue # <<>>
    /\ request_queue' = Tail(request_queue)
    /\ IF is_latest_at_dequeue(Head(request_queue))
       THEN /\ request' = Head(request_queue)
            /\ pcW' = "submit"
       ELSE UNCHANGED <<request, pcW>>
    /\ UNCHANGED <<request_counter, latest_request_number, request_id_to_number,
                   active_requests, future, custom_execute_installed, pcP, pReq,
                   done, best, supersededAtWait, latestAtCheck, actionLog, discarded>>
    /\ UNCHANGED nonTrigVars

\* a worker whose except clause is outside the while loop: the thread ends
worker_after_exception_ends == "ended"

\* _process_request_queue: the except clause is inside the while loop, the
\* worker goes back to _request_queue.get
worker_after_exception == "get"

\* executor.submit for every matching trigger; after executor.shutdown() the
\* first submit raises RuntimeError, which the except clause of the worker loop
\* catches
submit_validations ==
    /\ pcW = "submit"
    /\ IF executor_shutdown
       THEN /\ pcW' = worker_after_exception
            /\ request' = NoRequest
            /\ UNCHANGED future
       ELSE /\ future' = [future EXCEPT ![request.id] =
                            [t \in TriggerNames |->
                                IF t \in SeqToSet(request.triggers) THEN Fut("queued", 0) ELSE NoFuture]]
            /\ pcW' = "store"
            /\ UNCHANGED request
    /\ UNCHANGED <<request_counter, latest_request_number, request_id_to_number,
                   request_queue, active_requests, custom_execute_installed, pcP,
                   pReq, done, best, supersededAtWait, latestAtCheck,
                   actionLog, discarded>>
    /\ UNCHANGED nonTrigVars

store_active_futures ==
    /\ pcW = "store"
    /\ active_requests' = active_requests \cup {request.id}
    /\ pcW' = "wait"
    /\ UNCHANGED <<request_counter, latest_request_number, request_id_to_number,
                   request_queue, future, custom_execute_installed, pcP, pReq,
                   request, done, best, supersededAtWait, latestAtCheck, actionLog,
                   discarded>>
    /\ UNCHANGED nonTrigVars

RunningCount == Cardinality({rt \in RequestIds \X TriggerNames : future[rt[1]][rt[2]].state = "running"})

\* a pool thread picks the queued call up
validation_start(r, t) ==
    /\ future[r][t].state = "queued"
    /\ RunningCount < DEFAULT_MAX_WORKERS
    /\ future' = [future EXCEPT ![r][t] = Fut("running", 0)]
    /\ UNCHANGED <<request_counter, latest_request_number, request_id_to_number,
                   request_queue, active_requests, custom_execute_installed, pcP,
                   pReq, pcW, request, done, best, supersededAtWait, latestAtCheck,
                   actionLog, discarded>>
    /\ UNCHANGED nonTrigVars

\* _run_validation_only returns: None (rejected or error) or a result with a confidence
\* (a future is referenced only while its request is the one the worker holds;
\* the future of any other request is garbage once its call returns)
_run_validation_only(r, t, result) ==
    /\ future[r][t].state = "running"
    /\ r # request.id => result = 0
    /\ future' = [future EXCEPT ![r][t] =
                    IF r = request.id THEN Fut("finished", result) ELSE NoFuture]
    /\ UNCHANGED <<request_counter, latest_request_number, request_id_to_number,
                   request_queue, active_requests, custom_execute_installed, pcP,
                   pReq, pcW, request, done, best, supersededAtWait, latestAtCheck,
                   actionLog, discarded>>
    /\ UNCHANGED nonTrigVars

\* wait(...) returns, on completion of all futures or on the timeout, and the
\* futures still pending are cancelled
wait_returns ==
    /\ pcW = "wait"
    /\ LET mine == SeqToSet(request.triggers)
       IN /\ done' = {t \in mine : Finished(future[request.id][t])}
          /\ future' = [future EXCEPT ![request.id] =
                          [t \in TriggerNames |->
                             IF t \in mine THEN cancel(future[request.id][t])
                             ELSE future[request.id][t]]]
    /\ supersededAtWait' = IF request.number # latest_request_number
                           THEN supersededAtWait \cup {request.number}
                           ELSE supersededAtWait
    /\ pcW' = "check"
    /\ UNCHANGED <<request_counter, latest_request_number, request_id_to_number,
                   request_queue, active_requests, custom_execute_installed, pcP,
                   pReq, request, best, latestAtCheck, actionLog, discarded>>
    /\ UNCHANGED nonTrigVars

\* (mutations of the re-check: stale requests pass / any tracked request passes)
is_latest_after_wait_le == request_id_to_number[request.id] <= latest_request_number

is_latest_after_wait_tracked == request_id_to_number[request.id] # 0

\* the re-check after the wait
is_latest_after_wait == request_id_to_number[request.id] = latest_request_number

recheck_latest ==
    /\ pcW = "check"
    /\ IF is_latest_after_wait
       THEN /\ pcW' = "collect"
            /\ latestAtCheck' = latest_request_number
            /\ UNCHANGED <<future, active_requests, request_id_to_number,
                           request, done, discarded>>
       ELSE /\ future' = [future EXCEPT ![request.id] =
                            [t \in TriggerNames |->
                               IF request.id \in active_requests
                               THEN release(cancel(future[request.id][t]))
                               ELSE release(future[request.id][t])]]
            /\ active_requests' = active_requests \ {request.id}
            /\ request_id_to_number' = [request_id_to_number EXCEPT ![request.id] = 0]
            /\ discarded' = discarded \cup {request.number}
            /\ latestAtCheck' = 0
            /\ request' = NoRequest
            /\ done' = {}
            /\ pcW' = "get"
    /\ UNCHANGED <<request_counter, latest_request_number, request_queue,
                   custom_execute_installed, pcP, pReq, best, supersededAtWait,
                   actionLog>>
    /\ UNCHANGED nonTrigVars

\* every future of the request that has a result by now, in done or not
validated_triggers_late ==
    {t \in SeqToSet(request.triggers) :
        future[request.id][t].state = "finished" /\ future[request.id][t].result # 0}

\* validated_triggers: the done futures that are not cancelled and returned a result
validated_triggers ==
    {t \in done : future[request.id][t].state = "finished" /\ future[request.id][t].result # 0}

\* max(validated_triggers, key=(priority, confidence)); done is a Python set, so
\* its iteration order, and with it the choice among equal keys, is arbitrary
KeyLeq(a, b) ==
    \/ priority[a] < priority[b]
    \/ /\ priority[a] = priority[b]
       /\ future[request.id][a].result <= future[request.id][b].result

best_candidates == {t \in validated_triggers : \A u \in validated_triggers : KeyLeq(u, t)}

collect_and_select ==
    /\ pcW = "collect"
    /\ IF validated_triggers = {}
       THEN /\ pcW' = "cleanup"
            /\ best' = "none"
       ELSE /\ \E t \in best_candidates : best' = t
            /\ pcW' = "execute"
    /\ UNCHANGED <<request_counter, latest_request_number, request_id_to_number,
                   request_queue, active_requests, future, custom_execute_installed,
                   pcP, pReq, request, done, supersededAtWait, latestAtCheck,
                   actionLog, discarded>>
    /\ UNCHANGED nonTrigVars

\* custom_execute (main.py): calls trigger.action itself, then hands every
\* response that is not start_assistant to the original _execute_trigger
custom_execute(raises) ==
    /\ pcW = "execute"
    /\ custom_execute_installed
    /\ actionLog' = [actionLog EXCEPT ![request.id] = Append(@, best)]
    /\ IF raises
       THEN \* propagates to the except clause of the worker loop
            /\ pcW' = worker_after_exception
            /\ request' = NoRequest
            /\ done' = {}
            /\ best' = "none"
            /\ latestAtCheck' = 0
            /\ future' = [future EXCEPT ![request.id] =
                            [t \in TriggerNames |-> release(future[request.id][t])]]
       ELSE IF ActionResponse(best) = "start_assistant"
            THEN /\ pcW' = "cleanup"
                 /\ UNCHANGED <<request, done, best, future, latestAtCheck>>
            ELSE /\ pcW' = "execute_original"
                 /\ UNCHANGED <<request, done, best, future, latestAtCheck>>
    /\ UNCHANGED <<request_counter, latest_request_number, request_id_to_number,
                   request_queue, active_requests, custom_execute_installed,
                   pcP, pReq, supersededAtWait, discarded>>
    /\ UNCHANGED nonTrigVars

\* TriggerManager._execute_trigger: trigger.action inside try/except
_execute_trigger(raises) ==
    /\ \/ pcW = "execute" /\ ~custom_execute_installed
       \/ pcW = "execute_original"
    /\ actionLog' = [actionLog EXCEPT ![request.id] = Append(@, best)]
    /\ pcW' = "cleanup"
    /\ UNCHANGED <<request_counter, latest_request_number, request_id_to_number,
                   request_queue, active_requests, future, custom_execute_installed,
                   pcP, pReq, request, done, best, supersededAtWait, latestAtCheck,
                   discarded>>
    /\ UNCHANGED nonTrigVars

cleanup_request ==
    /\ pcW = "cleanup"
    /\ future' = [future EXCEPT ![request.id] =
                    [t \in TriggerNames |->
                       IF request.id \in active_requests
                       THEN release(cancel(future[request.id][t]))
                       ELSE release(future[request.id][t])]]
    /\ active_requests' = active_requests \ {request.id}
    /\ request_id_to_number' = [request_id_to_number EXCEPT ![request.id] = 0]
    /\ request' = NoRequest
    /\ done' = {}
    /\ best' = "none"
    /\ latestAtCheck' = 0
    /\ pcW' = "get"
    /\ UNCHANGED <<request_counter, latest_request_number, request_queue,
                   custom_execute_installed, pcP, pReq, supersededAtWait,
                   actionLog, discarded>>
    /\ UNCHANGED nonTrigVars

NextTrig ==
    \/ install_custom_execute
    \/ \E p \in Producers, text \in Texts : process_transcription(p, text)
    \/ \E p \in Producers : _cancel_pending_validations(p)
    \/ \E p \in Producers : queue_put(p)
    \/ _process_request_queue
    \/ submit_validations
    \/ store_active_futures
    \/ \E r \in RequestIds, t \in TriggerNames : validation_start(r, t)
    \/ \E r \in RequestIds, t \in TriggerNames, res \in ValidationResults : _run_validation_only(r, t, res)
    \/ wait_returns
    \/ recheck_latest
    \/ collect_and_select
    \/ \E raises \in BOOLEAN : custom_execute(raises)
    \/ \E raises \in BOOLEAN : _execute_trigger(raises)
    \/ cleanup_request

\* the transcription threads issuing requests while the worker dequeues them
\* and starts their validations
NextIssue ==
    \/ \E p \in Producers, text \in Texts : process_transcription(p, text)
    \/ \E p \in Producers : _cancel_pending_validations(p)
    \/ \E p \in Producers : queue_put(p)
    \/ _process_request_queue
    \/ submit_validations
    \/ store_active_futures
    \/ \E r \in RequestIds, t \in TriggerNames : validation_start(r, t)

\* the pipeline fed by one transcription thread
NextWorker ==
    \/ install_custom_execute
    \/ \E text \in Texts : process_transcription("p1", text)
    \/ _cancel_pending_validations("p1")
    \/ queue_put("p1")
    \/ _process_request_queue
    \/ submit_validations
    \/ store_active_futures
    \/ \E r \in RequestIds, t \in TriggerNames : validation_start(r, t)
    \/ \E r \in RequestIds, t \in TriggerNames, res \in ValidationResults : _run_validation_only(r, t, res)
    \/ wait_returns
    \/ recheck_latest
    \/ collect_and_select
    \/ \E raises \in BOOLEAN : custom_execute(raises)
    \/ \E raises \in BOOLEAN : _execute_trigger(raises)
    \/ cleanup_request

(***************************************************************************)
(* Winner selection, over any set of registered triggers                   *)
(***************************************************************************)
InitSel ==
    /\ added_triggers = <<>>
    /\ validated_list = <<>>
    /\ best_trigger = 0
    /\ pcSel = "register"

\* TriggerManager.add_trigger: self.triggers.append(trigger)
add_trigger(p) ==
    /\ pcSel = "register"
    /\ Len(added_triggers) < MaxCandidates
    /\ added_triggers' = Append(added_triggers, p)
    /\ UNCHANGED <<validated_list, best_trigger, pcSel>>
    /\ UNCHANGED nonSelVars

\* the triggers already in validated_triggers
Listed(list) == {list[i].trigger : i \in 1..Len(list)}

\* one iteration of "for future in done" whose result is truthy: the entry
\* (trigger, result, confidence) is appended. done is a set of futures, so
\* the loop meets the triggers in an order of its own
append_validated(i, c) ==
    /\ pcSel \in {"register", "collect"}
    /\ i \in 1..Len(added_triggers)
    /\ i \notin Listed(validated_list)
    /\ validated_list' = Append(validated_list, [trigger |-> i, confidence |-> c])
    /\ pcSel' = "collect"
    /\ UNCHANGED <<added_triggers, best_trigger>>
    /\ UNCHANGED nonSelVars

\* the key with the confidence compared before the priority
key_less_confidence_first(prio, a, b) ==
    \/ a.confidence < b.confidence
    \/ /\ a.confidence = b.confidence
       /\ prio[a.trigger] < prio[b.trigger]

\* key=lambda x: (x[0].priority, x[2]): tuples compare element by element
key_less(prio, a, b) ==
    \/ prio[a.trigger] < prio[b.trigger]
    \/ /\ prio[a.trigger] = prio[b.trigger]
       /\ a.confidence < b.confidence

\* max(list, key=...): the first element no other element's key exceeds
max_by_key(prio, list) ==
    LET top(i) == \A j \in 1..Len(list) : ~key_less(prio, list[i], list[j])
    IN list[CHOOSE i \in 1..Len(list) : top(i) /\ \A j \in 1..(i - 1) : ~top(j)]

\* best_trigger, best_result = max(validated_triggers, key=...)
select_best ==
    /\ pcSel = "collect"
    /\ best_trigger' = max_by_key(added_triggers, validated_list).trigger
    /\ pcSel' = "selected"
    /\ UNCHANGED <<added_triggers, validated_list>>
    /\ UNCHANGED nonSelVars

NextSelect ==
    \/ \E p \in Priorities : add_trigger(p)
    \/ \E i \in 1..MaxCandidates, c \in Confidences : append_validated(i, c)
    \/ select_best

(***************************************************************************)
(* AudioStreamManager                                                      *)
(***************************************************************************)
\* the bound method transcriber.send_audio
send_audio == "send_audio"

\* the n-th buffer_audio closure made by _start_audio_buffering
BufferConsumer(n) == "buffer_audio_" \o ToString(n)

BufferConsumers == {BufferConsumer(n) : n \in 1..MaxCalls}

\* RealtimeAudioHandler._handle_input_audio, the live consumer of the session
_handle_input_audio == "_handle_input_audio"

AllConsumers == BusConsumers \cup {send_audio, _handle_input_audio} \cup BufferConsumers

Count(c, s) == Cardinality({i \in 1..Len(s) : s[i] = c})

\* list.remove(x): drops the first entry equal to x
list_remove(s, c) ==
    LET i == CHOOSE k \in 1..Len(s) : s[k] = c /\ \A j \in 1..(k - 1) : s[j] # c
    IN SubSeq(s, 1, i - 1) \o SubSeq(s, i + 1, Len(s))

consumers_after_remove_noop(cs, c) == cs

\* remove_consumer: the consumer list it leaves
consumers_after_remove(cs, c) == IF c \in SeqToSet(cs) THEN list_remove(cs, c) ELSE cs

\* resume_microphone: the failed set it leaves
failed_after_resume(failed, restored) == failed \ SeqToSet(restored)

should_invoke_all(c) == TRUE

should_invoke_live(c) == c \notin failed_consumers

\* _audio_loop: is the consumer of the snapshot invoked with the chunk
should_invoke(c) == c \notin failed_copy

after_consumer_error_abort(i) == Len(consumers_copy) + 1

\* _audio_loop: index of the next consumer after one raised
after_consumer_error(i) == i + 1

\* consumers that can raise when invoked
CanRaise(c) == c \in BusConsumers

InitBus ==
    /\ running = FALSE
    /\ consumers = <<>>
    /\ failed_consumers = {}
    /\ paused_consumers = <<>>
    /\ is_paused = FALSE
    /\ pcL = "off"
    /\ consumers_copy = <<>>
    /\ failed_copy = {}
    /\ idx = 1
    /\ pcS = "idle"
    /\ received = [c \in AllConsumers |-> 0]
    /\ removed = [c \in AllConsumers |-> "no"]
    /\ raised = [c \in AllConsumers |-> "no"]
    /\ raisedNow = FALSE
    /\ atPause = <<>>
    /\ noop_calls = {}

\* effect of add_consumer(c) on the bus
BusAdd(c) ==
    /\ consumers' = Append(consumers, c)
    /\ failed_consumers' = failed_consumers \ {c}
    /\ removed' = [removed EXCEPT ![c] = "no"]
    /\ raised' = [raised EXCEPT ![c] = "no"]

\* raised[c]: "no" (not since c was last added), "now" (on the chunk the loop
\* holds), "earlier" (on an earlier chunk); "cleared_now" and "cleared" are
\* "now" and "earlier" after remove_consumer or resume_microphone has dropped
\* the failed mark of c
dropped_mark(r) == IF r = "now" THEN "cleared_now" ELSE IF r = "earlier" THEN "cleared" ELSE r

\* effect of remove_consumer(c) on the bus; removed[c] records whether a
\* registration of c is left ("partial", or "paused" when the bus is paused and the
\* registration left is a stored one), and otherwise whether the loop holds a
\* snapshot taken before the removal ("fresh") or not ("settled")
BusRemove(c) ==
    /\ consumers' = consumers_after_remove(consumers, c)
    /\ failed_consumers' = failed_consumers \ {c}
    /\ removed' = [removed EXCEPT ![c] =
                     IF Count(c, consumers) + Count(c, paused_consumers)
                          > (IF c \in SeqToSet(consumers) THEN 1 ELSE 0)
                     THEN IF is_paused /\ c \notin SeqToSet(consumers) THEN "paused" ELSE "partial"
                     ELSE IF pcL \in {"dispatch", "mark"} THEN "fresh" ELSE "settled"]
    /\ raised' = [raised EXCEPT ![c] = dropped_mark(@)]

\* (VoiceAssistant.stop stops the bus after all its users: no caller
\* registers, removes, pauses or resumes once stop() has begun)
add_consumer(c) ==
    /\ pcS = "idle"
    /\ Len(consumers) + Len(paused_consumers) < MaxConsumers
    /\ BusAdd(c)
    /\ UNCHANGED <<running, paused_consumers, is_paused, pcL, consumers_copy, failed_copy, idx, pcS, received, raisedNow>>
    /\ UNCHANGED <<atPause, noop_calls>>
    /\ UNCHANGED nonBusVars

remove_consumer(c) ==
    /\ pcS = "idle"
    /\ BusRemove(c)
    /\ UNCHANGED <<running, paused_consumers, is_paused, pcL, consumers_copy, failed_copy, idx, pcS, received, raisedNow>>
    /\ UNCHANGED <<atPause, noop_calls>>
    /\ UNCHANGED nonBusVars

\* effect of pause_microphone() on the bus
\* pause_microphone() without the early return taken when already paused
BusPause_always_stores ==
    /\ paused_consumers' = consumers
    /\ consumers' = <<>>
    /\ is_paused' = TRUE

BusPause ==
    IF is_paused
    THEN UNCHANGED <<consumers, paused_consumers, is_paused>>
    ELSE /\ paused_consumers' = consumers
         /\ consumers' = <<>>
         /\ is_paused' = TRUE

\* effect of resume_microphone() on the bus
BusResume ==
    IF ~is_paused
    THEN UNCHANGED <<consumers, paused_consumers, is_paused, failed_consumers, raised>>
    ELSE /\ consumers' = paused_consumers
         /\ paused_consumers' = <<>>
         /\ is_paused' = FALSE
         /\ failed_consumers' = failed_after_resume(failed_consumers, paused_consumers)
         /\ raised' = [c \in AllConsumers |->
                         IF c \in SeqToSet(paused_consumers)
                         THEN dropped_mark(raised[c])
                         ELSE raised[c]]

pause_microphone ==
    /\ pcS = "idle"
    /\ ~is_paused
    /\ BusPause
    /\ UNCHANGED <<running, failed_consumers, pcL, consumers_copy,
                   failed_copy, idx, pcS, received, removed, raised, raisedNow>>
    /\ atPause' = consumers
    /\ UNCHANGED noop_calls
    /\ UNCHANGED nonBusVars

resume_microphone ==
    /\ pcS = "idle"
    /\ is_paused
    /\ BusResume
    /\ UNCHANGED <<running, pcL, consumers_copy, failed_copy, idx,
                   pcS, received, removed, raisedNow>>
    /\ atPause' = <<>>
    /\ UNCHANGED noop_calls
    /\ UNCHANGED nonBusVars

\* start(): the bus is started once, by VoiceAssistant.start
start ==
    /\ ~running
    /\ pcL = "off"
    /\ pcS = "idle"
    /\ running' = TRUE
    /\ pcL' = "read"
    /\ UNCHANGED <<consumers, failed_consumers, paused_consumers, is_paused,
                   consumers_copy, failed_copy, idx, pcS,
                   received, removed, raised, raisedNow>>
    /\ UNCHANGED <<atPause, noop_calls>>
    /\ UNCHANGED nonBusVars

\* stop(): running = False
stop_signal ==
    /\ pcS = "idle"
    /\ pcL # "off"
    /\ running' = FALSE
    /\ pcS' = "join"
    /\ UNCHANGED <<consumers, failed_consumers, paused_consumers, is_paused, pcL,
                   consumers_copy, failed_copy, idx,
                   received, removed, raised, raisedNow>>
    /\ UNCHANGED <<atPause, noop_calls>>
    /\ UNCHANGED nonBusVars

\* stop(): audio_thread.join(timeout=2.0) has returned, the thread ended or not,
\* and the registries are cleared under the lock
stop_clear ==
    /\ pcS = "join"
    /\ consumers' = <<>>
    /\ failed_consumers' = {}
    /\ paused_consumers' = <<>>
    /\ is_paused' = FALSE
    /\ pcS' = "done"
    /\ UNCHANGED <<running, pcL, consumers_copy, failed_copy, idx,
                   received, removed, raised, raisedNow>>
    /\ atPause' = <<>>
    /\ UNCHANGED noop_calls
    /\ UNCHANGED nonBusVars

\* _audio_loop: the while test and stream.read
audio_read ==
    /\ pcL = "read"
    /\ IF ~running
       THEN /\ pcL' = "ended"
            /\ UNCHANGED raised
       ELSE /\ raised' = [c \in AllConsumers |->
                            IF raised[c] = "now" THEN "earlier"
                            ELSE IF raised[c] = "cleared_now" THEN "cleared"
                            ELSE raised[c]]
            /\ pcL' = "snapshot"
    /\ UNCHANGED <<running, consumers, failed_consumers, paused_consumers, is_paused,
                   consumers_copy, failed_copy, idx, pcS, removed, received,
                   raisedNow>>
    /\ UNCHANGED <<atPause, noop_calls>>
    /\ UNCHANGED nonBusVars

\* _audio_loop: the copies taken under consumers_lock
audio_snapshot ==
    /\ pcL = "snapshot"
    /\ IF ~running
       THEN /\ pcL' = "ended"
            /\ UNCHANGED <<consumers_copy, failed_copy, idx, removed>>
       ELSE /\ consumers_copy' = consumers
            /\ failed_copy' = failed_consumers
            /\ idx' = 1
            /\ removed' = [c \in AllConsumers |->
                             IF removed[c] = "fresh" THEN "settled" ELSE removed[c]]
            /\ pcL' = "dispatch"
    /\ UNCHANGED <<running, consumers, failed_consumers, paused_consumers, is_paused,
                   pcS, received, raised, raisedNow>>
    /\ UNCHANGED <<atPause, noop_calls>>
    /\ UNCHANGED nonBusVars

\* _audio_loop: one turn of the for loop over consumers_copy
audio_dispatch(raises) ==
    /\ pcL = "dispatch"
    /\ idx <= Len(consumers_copy)
    /\ LET c == consumers_copy[idx]
       IN IF ~running
          THEN /\ ~raises
               /\ idx' = Len(consumers_copy) + 1
               /\ UNCHANGED <<pcL, received, raised, raisedNow>>
          ELSE IF ~should_invoke(c)
          THEN /\ ~raises
               /\ idx' = idx + 1
               /\ UNCHANGED <<pcL, received, raised, raisedNow>>
          ELSE /\ raises => CanRaise(c)
               /\ received' = [received EXCEPT ![c] = @ + 1]
               /\ IF raises
                  THEN /\ pcL' = "mark"
                       /\ raised' = [raised EXCEPT ![c] = "now"]
                       /\ raisedNow' = TRUE
                       /\ UNCHANGED idx
                  ELSE /\ idx' = idx + 1
                       /\ UNCHANGED <<pcL, raised, raisedNow>>
    /\ UNCHANGED <<running, consumers, failed_consumers, paused_consumers, is_paused,
                   consumers_copy, failed_copy, pcS, removed>>
    /\ UNCHANGED <<atPause, noop_calls>>
    /\ UNCHANGED nonBusVars

\* _audio_loop: the except clause around the consumer call
audio_mark_failed ==
    /\ pcL = "mark"
    /\ failed_consumers' = IF running THEN failed_consumers \cup {consumers_copy[idx]}
                           ELSE failed_consumers
    /\ idx' = after_consumer_error(idx)
    /\ pcL' = "dispatch"
    /\ UNCHANGED <<running, consumers, paused_consumers, is_paused, consumers_copy, failed_copy, pcS, received, removed, raised,
                   raisedNow>>
    /\ UNCHANGED <<atPause, noop_calls>>
    /\ UNCHANGED nonBusVars

\* _audio_loop: the for loop is exhausted
audio_dispatch_done ==
    /\ pcL = "dispatch"
    /\ idx > Len(consumers_copy)
    /\ pcL' = "read"
    /\ consumers_copy' = <<>>
    /\ failed_copy' = {}
    /\ idx' = 1
    /\ received' = [c \in AllConsumers |-> 0]
    /\ raisedNow' = FALSE
    /\ UNCHANGED <<running, consumers, failed_consumers, paused_consumers, is_paused,
                   pcS, removed, raised>>
    /\ UNCHANGED <<atPause, noop_calls>>
    /\ UNCHANGED nonBusVars

NextBus ==
    \/ \E c \in BusConsumers : add_consumer(c)
    \/ \E c \in BusConsumers : remove_consumer(c)
    \/ pause_microphone
    \/ resume_microphone
    \/ start
    \/ stop_signal
    \/ stop_clear
    \/ audio_read
    \/ audio_snapshot
    \/ \E raises \in BOOLEAN : audio_dispatch(raises)
    \/ audio_mark_failed
    \/ audio_dispatch_done

\* pause_microphone() called while the bus is paused: "Microphone already paused"
pause_microphone_again ==
    /\ pcS = "idle"
    /\ is_paused
    /\ "pause" \notin noop_calls
    /\ BusPause
    /\ noop_calls' = noop_calls \cup {"pause"}
    /\ UNCHANGED <<running, failed_consumers, pcL, consumers_copy,
                   failed_copy, idx, pcS, received, removed, raised, raisedNow,
                   atPause>>
    /\ UNCHANGED nonBusVars

\* resume_microphone() called while the bus is not paused: "Microphone not paused"
resume_microphone_idle ==
    /\ pcS = "idle"
    /\ ~is_paused
    /\ "resume" \notin noop_calls
    /\ BusResume
    /\ noop_calls' = noop_calls \cup {"resume"}
    /\ UNCHANGED <<running, pcL, consumers_copy, failed_copy, idx,
                   pcS, received, removed, raisedNow, atPause>>
    /\ UNCHANGED nonBusVars

\* the bus with callers that pause and resume at any time, before stop()
NextPause ==
    \/ \E c \in BusConsumers : add_consumer(c)
    \/ \E c \in BusConsumers : remove_consumer(c)
    \/ pause_microphone
    \/ resume_microphone
    \/ pause_microphone_again
    \/ resume_microphone_idle
    \/ start
    \/ audio_read
    \/ audio_snapshot
    \/ audio_dispatch(FALSE)
    \/ audio_dispatch_done

\* _audio_loop: the tests before the consumer call of one turn of the for loop,
\* for a consumer call that takes time
audio_call_enter ==
    /\ pcL = "dispatch"
    /\ idx <= Len(consumers_copy)
    /\ IF ~running
       THEN /\ idx' = Len(consumers_copy) + 1
            /\ UNCHANGED pcL
       ELSE IF ~should_invoke(consumers_copy[idx])
       THEN /\ idx' = idx + 1
            /\ UNCHANGED pcL
       ELSE /\ pcL' = "call"
            /\ UNCHANGED idx
    /\ UNCHANGED <<running, consumers, failed_consumers, paused_consumers, is_paused,
                   consumers_copy, failed_copy, pcS, received, removed, raised,
                   raisedNow>>
    /\ UNCHANGED <<atPause, noop_calls>>
    /\ UNCHANGED nonBusVars

\* _audio_loop: consumer(audio_base64) has run and returns
audio_call_return ==
    /\ pcL = "call"
    /\ received' = [received EXCEPT ![consumers_copy[idx]] = @ + 1]
    /\ idx' = idx + 1
    /\ pcL' = "dispatch"
    /\ UNCHANGED <<running, consumers, failed_consumers, paused_consumers, is_paused,
                   consumers_copy, failed_copy, pcS, removed, raised, raisedNow>>
    /\ UNCHANGED <<atPause, noop_calls>>
    /\ UNCHANGED nonBusVars

\* the bus from start() to the end of stop(), with consumer calls that take time
NextStop ==
    \/ \E c \in BusConsumers : add_consumer(c)
    \/ \E c \in BusConsumers : remove_consumer(c)
    \/ start
    \/ stop_signal
    \/ stop_clear
    \/ audio_read
    \/ audio_snapshot
    \/ audio_call_enter
    \/ audio_call_return
    \/ audio_dispatch_done

(***************************************************************************)
(* ConnectionCoordinator                                                   *)
(***************************************************************************)
\* transition_buffer = queue.Queue(maxsize=100)
TRANSITION_BUFFER_MAXSIZE == 100

\* a full queue refusing the new chunk
put_nowait_drop_new(q, chunk) ==
    IF Len(q) < TRANSITION_BUFFER_MAXSIZE THEN Append(q, chunk) ELSE q

\* buffer_audio: put_nowait, and on queue.Full the oldest chunk makes room
put_nowait(q, chunk) ==
    IF Len(q) < TRANSITION_BUFFER_MAXSIZE THEN Append(q, chunk) ELSE Append(Tail(q), chunk)

can_start_assistant_unless_assistant(m) == m # "ASSISTANT"

\* start_assistant_mode: the mode check under mode_lock
can_start_assistant(m) == m = "TRANSCRIPTION"

\* end_assistant_mode: the mode check under mode_lock
can_end_assistant(m) == m = "ASSISTANT"

InitCoord ==
    /\ current_mode = "DISCONNECTED"
    /\ buffering = FALSE
    /\ buffer_consumer = "none"
    /\ transition_buffer = <<>>
    /\ buffer_seq = 0
    /\ session_active = FALSE
    /\ transcriber_paused = FALSE
    /\ reconnects = 0
    /\ pcMain = "register"
    /\ pcC = [t \in CoordThreads |-> "idle"]
    /\ op = [t \in CoordThreads |-> "none"]
    /\ returned = [t \in CoordThreads |-> "none"]
    /\ effects = [t \in CoordThreads |-> FALSE]
    /\ failure = [t \in CoordThreads |-> "no"]
    /\ race = FALSE
    /\ nCalls = 0
    /\ session_start_failed = FALSE
    /\ captured = 0
    /\ delivered = <<>>
    /\ input_active = FALSE
    /\ live_audio = <<>>
    /\ buffer_start = 0
    /\ flushed = <<>>
    /\ flushes = 0
    /\ discards = 0
    /\ pcSd = "idle"
    /\ pcR = "idle"

\* _start_audio_buffering: a new queue, a new closure, registered on the bus
_start_audio_buffering ==
    /\ buffering' = TRUE
    /\ transition_buffer' = <<>>
    /\ buffer_seq' = buffer_seq + 1
    /\ buffer_consumer' = BufferConsumer(buffer_seq + 1)
    /\ buffer_start' = captured
    /\ BusAdd(BufferConsumer(buffer_seq + 1))

\* _stop_audio_buffering: the stored closure is removed; the queue is flushed to
\* the session, or cleared, or (flush asked for but session not active) left as it is
_stop_audio_buffering(flush_to_realtime) ==
    /\ buffering' = FALSE
    /\ IF buffer_consumer # "none"
       THEN BusRemove(buffer_consumer)
       ELSE UNCHANGED <<consumers, failed_consumers, removed, raised>>
    /\ buffer_consumer' = "none"
    /\ IF flush_to_realtime
       THEN IF session_active
            THEN \* every queued chunk goes to realtime_session.send_audio
                 /\ flushed' = flushed \o transition_buffer
                 /\ flushes' = flushes + 1
                 /\ transition_buffer' = <<>>
                 /\ UNCHANGED discards
            ELSE \* "Session not active, discarding buffered audio": nothing is done
                 UNCHANGED <<transition_buffer, flushed, flushes, discards>>
       ELSE \* the queue is emptied
            /\ transition_buffer' = <<>>
            /\ discards' = discards + 1
            /\ UNCHANGED <<flushed, flushes>>

\* VoiceAssistant.start: audio_manager.add_consumer(transcriber.send_audio)
register_transcriber ==
    /\ pcMain = "register"
    /\ BusAdd(send_audio)
    /\ pcMain' = "initialize"
    /\ UNCHANGED <<current_mode, buffering, buffer_consumer,
                    transition_buffer, buffer_seq, session_active,
                    transcriber_paused, reconnects, pcC, op, returned,
                    effects, failure, race, nCalls, session_start_failed>>
    /\ UNCHANGED busLoopVars
    /\ UNCHANGED <<captured, delivered, input_active, live_audio, buffer_start,
                   flushed, flushes, discards>>
    /\ UNCHANGED nonCallVars

\* initialize_transcription_mode, called once by VoiceAssistant.start
initialize_transcription_mode ==
    /\ pcMain = "initialize"
    /\ current_mode' = "TRANSCRIPTION"
    /\ pcMain' = "running"
    /\ UNCHANGED <<buffering, buffer_consumer, transition_buffer,
                    buffer_seq, session_active, transcriber_paused,
                    reconnects, pcC, op, returned, effects, failure, race,
                    nCalls, session_start_failed>>
    /\ UNCHANGED busVars
    /\ UNCHANGED <<captured, delivered, input_active, live_audio, buffer_start,
                   flushed, flushes, discards>>
    /\ UNCHANGED nonCallVars

\* a thread enters start_assistant_mode()
call_start_assistant_mode(t) ==
    /\ pcMain = "running"
    /\ pcC[t] = "idle"
    /\ nCalls < MaxCalls
    /\ nCalls' = nCalls + 1
    /\ pcC' = [pcC EXCEPT ![t] = "cas"]
    /\ returned' = [returned EXCEPT ![t] = "none"]
    /\ effects' = [effects EXCEPT ![t] = FALSE]
    /\ failure' = [failure EXCEPT ![t] = "no"]
    /\ op' = [op EXCEPT ![t] = "start"]
    /\ race' = \E u \in CoordThreads \ {t} :
                  pcC[u] = "cas" /\ op[u] = "start" /\ current_mode = "TRANSCRIPTION"
    /\ UNCHANGED <<current_mode, buffering, buffer_consumer,
                    transition_buffer, buffer_seq, session_active,
                    transcriber_paused, reconnects, pcMain,
                    session_start_failed>>
    /\ UNCHANGED busVars
    /\ UNCHANGED <<captured, delivered, input_active, live_audio, buffer_start,
                   flushed, flushes, discards>>
    /\ UNCHANGED nonCallVars

\* a thread enters end_assistant_mode()
call_end_assistant_mode(t) ==
    /\ pcMain = "running"
    /\ pcC[t] = "idle"
    /\ nCalls < MaxCalls
    /\ nCalls' = nCalls + 1
    /\ pcC' = [pcC EXCEPT ![t] = "cas"]
    /\ returned' = [returned EXCEPT ![t] = "none"]
    /\ effects' = [effects EXCEPT ![t] = FALSE]
    /\ failure' = [failure EXCEPT ![t] = "no"]
    /\ op' = [op EXCEPT ![t] = "end"]
    /\ race' = FALSE
    /\ UNCHANGED <<current_mode, buffering, buffer_consumer,
                    transition_buffer, buffer_seq, session_active,
                    transcriber_paused, reconnects, pcMain,
                    session_start_failed>>
    /\ UNCHANGED busVars
    /\ UNCHANGED <<captured, delivered, input_active, live_audio, buffer_start,
                   flushed, flushes, discards>>
    /\ UNCHANGED nonCallVars

\* start_assistant_mode: the check and the move to TRANSITIONING under mode_lock
start_check_and_set(t) ==
    /\ pcC[t] = "cas" /\ op[t] = "start"
    /\ IF can_start_assistant(current_mode)
       THEN /\ current_mode' = "TRANSITIONING"
            /\ pcC' = [pcC EXCEPT ![t] = "s_notify"]
            /\ flushed' = <<>>
            /\ flushes' = 0
            /\ discards' = 0
            /\ UNCHANGED returned
       ELSE /\ pcC' = [pcC EXCEPT ![t] = "idle"]
            /\ returned' = [returned EXCEPT ![t] = "False"]
            /\ UNCHANGED <<current_mode, flushed, flushes, discards>>
    /\ UNCHANGED <<buffering, buffer_consumer, transition_buffer,
                    buffer_seq, session_active, transcriber_paused,
                    reconnects, pcMain, op, effects, failure, race, nCalls,
                    session_start_failed>>
    /\ UNCHANGED busVars
    /\ UNCHANGED <<captured, delivered, input_active, live_audio, buffer_start>>
    /\ UNCHANGED nonCallVars

\* start_assistant_mode: on_mode_change(TRANSITIONING), an exception of the callback is swallowed
start_notify_transitioning(t) ==
    /\ pcC[t] = "s_notify" /\ op[t] = "start"
    /\ effects' = [effects EXCEPT ![t] = TRUE]
    /\ pcC' = [pcC EXCEPT ![t] = "s_buffer"]
    /\ UNCHANGED <<current_mode, buffering, buffer_consumer,
                    transition_buffer, buffer_seq, session_active,
                    transcriber_paused, reconnects, pcMain, op, returned,
                    failure, race, nCalls, session_start_failed>>
    /\ UNCHANGED busVars
    /\ UNCHANGED <<captured, delivered, input_active, live_audio, buffer_start,
                   flushed, flushes, discards>>
    /\ UNCHANGED nonCallVars

\* a start_assistant_mode that pauses the transcriber without removing its consumer first
start_begin_buffering_then_pause(t) ==
    /\ pcC[t] = "s_buffer" /\ op[t] = "start"
    /\ _start_audio_buffering
    /\ pcC' = [pcC EXCEPT ![t] = "s_pause"]
    /\ UNCHANGED <<current_mode, session_active, transcriber_paused,
                    reconnects, pcMain, op, returned, effects, failure, race,
                    nCalls, session_start_failed>>
    /\ UNCHANGED busLoopVars
    /\ UNCHANGED <<captured, delivered, input_active, live_audio, flushed, flushes, discards>>
    /\ UNCHANGED nonCallVars

\* start_assistant_mode: _start_audio_buffering()
start_begin_buffering(t) ==
    /\ pcC[t] = "s_buffer" /\ op[t] = "start"
    /\ _start_audio_buffering
    /\ pcC' = [pcC EXCEPT ![t] = "s_remove"]
    /\ UNCHANGED <<current_mode, session_active, transcriber_paused,
                    reconnects, pcMain, op, returned, effects, failure, race,
                    nCalls, session_start_failed>>
    /\ UNCHANGED busLoopVars
    /\ UNCHANGED <<captured, delivered, input_active, live_audio, flushed, flushes, discards>>
    /\ UNCHANGED nonCallVars

\* start_assistant_mode: audio_manager.remove_consumer(transcriber.send_audio)
start_remove_transcriber(t) ==
    /\ pcC[t] = "s_remove" /\ op[t] = "start"
    /\ BusRemove(send_audio)
    /\ pcC' = [pcC EXCEPT ![t] = "s_pause"]
    /\ UNCHANGED <<current_mode, buffering, buffer_consumer,
                    transition_buffer, buffer_seq, session_active,
                    transcriber_paused, reconnects, pcMain, op, returned,
                    effects, failure, race, nCalls, session_start_failed>>
    /\ UNCHANGED busLoopVars
    /\ UNCHANGED <<captured, delivered, input_active, live_audio, buffer_start,
                   flushed, flushes, discards>>
    /\ UNCHANGED nonCallVars

\* start_assistant_mode: transcriber.pause()
start_pause_transcriber(t) ==
    /\ pcC[t] = "s_pause" /\ op[t] = "start"
    /\ transcriber_paused' = TRUE
    /\ pcC' = [pcC EXCEPT ![t] = "s_context"]
    /\ UNCHANGED <<current_mode, buffering, buffer_consumer,
                    transition_buffer, buffer_seq, session_active,
                    reconnects, pcMain, op, returned, effects, failure, race,
                    nCalls, session_start_failed>>
    /\ UNCHANGED busVars
    /\ UNCHANGED <<captured, delivered, input_active, live_audio, buffer_start,
                   flushed, flushes, discards>>
    /\ UNCHANGED nonCallVars

\* start_assistant_mode: context_manager.get_context_for_realtime()
start_get_context(t, raises) ==
    /\ pcC[t] = "s_context" /\ op[t] = "start"
    /\ IF raises
       THEN /\ failure' = [failure EXCEPT ![t] = "context"]
            /\ pcC' = [pcC EXCEPT ![t] = "r_stop"]
       ELSE /\ pcC' = [pcC EXCEPT ![t] = "s_session"]
            /\ UNCHANGED failure
    /\ UNCHANGED <<current_mode, buffering, buffer_consumer,
                    transition_buffer, buffer_seq, session_active,
                    transcriber_paused, reconnects, pcMain, op, returned,
                    effects, race, nCalls, session_start_failed>>
    /\ UNCHANGED busVars
    /\ UNCHANGED <<captured, delivered, input_active, live_audio, buffer_start,
                   flushed, flushes, discards>>
    /\ UNCHANGED nonCallVars

\* start_assistant_mode: realtime_session.start_session(...); False raises into the rollback
start_session(t, success) ==
    /\ pcC[t] = "s_session" /\ op[t] = "start"
    /\ IF success
       THEN /\ session_active' = TRUE
            /\ pcC' = [pcC EXCEPT ![t] = "s_flush"]
            /\ UNCHANGED <<failure, session_start_failed>>
       ELSE /\ failure' = [failure EXCEPT ![t] = "session"]
            /\ session_start_failed' = TRUE
            /\ pcC' = [pcC EXCEPT ![t] = "r_stop"]
            /\ UNCHANGED session_active
    /\ UNCHANGED <<current_mode, buffering, buffer_consumer,
                    transition_buffer, buffer_seq, transcriber_paused,
                    reconnects, pcMain, op, returned, effects, race, nCalls>>
    /\ UNCHANGED busVars
    /\ UNCHANGED <<captured, delivered, input_active, live_audio, buffer_start,
                   flushed, flushes, discards>>
    /\ UNCHANGED nonCallVars

\* start_assistant_mode: _stop_audio_buffering(flush_to_realtime=True)
start_flush_buffer(t) ==
    /\ pcC[t] = "s_flush" /\ op[t] = "start"
    /\ _stop_audio_buffering(TRUE)
    /\ pcC' = [pcC EXCEPT ![t] = "s_mode"]
    /\ UNCHANGED <<current_mode, buffer_seq, session_active,
                    transcriber_paused, reconnects, pcMain, op, returned,
                    effects, failure, race, nCalls, session_start_failed>>
    /\ UNCHANGED busLoopVars
    /\ UNCHANGED <<captured, delivered, input_active, live_audio, buffer_start>>
    /\ UNCHANGED nonCallVars

\* start_assistant_mode: current_mode = ASSISTANT under mode_lock
start_set_assistant(t) ==
    /\ pcC[t] = "s_mode" /\ op[t] = "start"
    /\ current_mode' = "ASSISTANT"
    /\ pcC' = [pcC EXCEPT ![t] = "s_notify2"]
    /\ UNCHANGED <<buffering, buffer_consumer, transition_buffer,
                    buffer_seq, session_active, transcriber_paused,
                    reconnects, pcMain, op, returned, effects, failure, race,
                    nCalls, session_start_failed>>
    /\ UNCHANGED busVars
    /\ UNCHANGED <<captured, delivered, input_active, live_audio, buffer_start,
                   flushed, flushes, discards>>
    /\ UNCHANGED nonCallVars

\* start_assistant_mode: on_mode_change(ASSISTANT) inside the try block, then return True
start_notify_assistant(t, raises) ==
    /\ pcC[t] = "s_notify2" /\ op[t] = "start"
    /\ IF raises
       THEN /\ failure' = [failure EXCEPT ![t] = "callback"]
            /\ pcC' = [pcC EXCEPT ![t] = "r_stop"]
            /\ UNCHANGED returned
       ELSE /\ pcC' = [pcC EXCEPT ![t] = "idle"]
            /\ returned' = [returned EXCEPT ![t] = "True"]
            /\ UNCHANGED failure
    /\ UNCHANGED <<current_mode, buffering, buffer_consumer,
                    transition_buffer, buffer_seq, session_active,
                    transcriber_paused, reconnects, pcMain, op, effects,
                    race, nCalls, session_start_failed>>
    /\ UNCHANGED busVars
    /\ UNCHANGED <<captured, delivered, input_active, live_audio, buffer_start,
                   flushed, flushes, discards>>
    /\ UNCHANGED nonCallVars

\* start_assistant_mode, except clause: _stop_audio_buffering(flush_to_realtime=False)
rollback_stop_buffering(t) ==
    /\ pcC[t] = "r_stop" /\ op[t] = "start"
    /\ _stop_audio_buffering(FALSE)
    /\ pcC' = [pcC EXCEPT ![t] = "r_spawn"]
    /\ UNCHANGED <<current_mode, buffer_seq, session_active,
                    transcriber_paused, reconnects, pcMain, op, returned,
                    effects, failure, race, nCalls, session_start_failed>>
    /\ UNCHANGED busLoopVars
    /\ UNCHANGED <<captured, delivered, input_active, live_audio, buffer_start>>
    /\ UNCHANGED nonCallVars

\* start_assistant_mode, except clause: the TranscriberReconnect thread is started
rollback_spawn_reconnect(t) ==
    /\ pcC[t] = "r_spawn" /\ op[t] = "start"
    /\ reconnects' = reconnects + 1
    /\ pcC' = [pcC EXCEPT ![t] = "r_mode"]
    /\ UNCHANGED <<current_mode, buffering, buffer_consumer,
                    transition_buffer, buffer_seq, session_active,
                    transcriber_paused, pcMain, op, returned, effects,
                    failure, race, nCalls, session_start_failed>>
    /\ UNCHANGED busVars
    /\ UNCHANGED <<captured, delivered, input_active, live_audio, buffer_start,
                   flushed, flushes, discards>>
    /\ UNCHANGED nonCallVars

\* start_assistant_mode, except clause: current_mode = TRANSCRIPTION under mode_lock
rollback_set_transcription(t) ==
    /\ pcC[t] = "r_mode" /\ op[t] = "start"
    /\ current_mode' = "TRANSCRIPTION"
    /\ pcC' = [pcC EXCEPT ![t] = "r_notify"]
    /\ UNCHANGED <<buffering, buffer_consumer, transition_buffer,
                    buffer_seq, session_active, transcriber_paused,
                    reconnects, pcMain, op, returned, effects, failure, race,
                    nCalls, session_start_failed>>
    /\ UNCHANGED busVars
    /\ UNCHANGED <<captured, delivered, input_active, live_audio, buffer_start,
                   flushed, flushes, discards>>
    /\ UNCHANGED nonCallVars

\* start_assistant_mode, except clause: on_mode_change(TRANSCRIPTION), exception swallowed, return False
rollback_notify(t) ==
    /\ pcC[t] = "r_notify" /\ op[t] = "start"
    /\ pcC' = [pcC EXCEPT ![t] = "idle"]
    /\ returned' = [returned EXCEPT ![t] = "False"]
    /\ UNCHANGED <<current_mode, buffering, buffer_consumer,
                    transition_buffer, buffer_seq, session_active,
                    transcriber_paused, reconnects, pcMain, op, effects,
                    failure, race, nCalls, session_start_failed>>
    /\ UNCHANGED busVars
    /\ UNCHANGED <<captured, delivered, input_active, live_audio, buffer_start,
                   flushed, flushes, discards>>
    /\ UNCHANGED nonCallVars

\* delayed_reconnect: after the sleep and transcriber.connect(), add_consumer(send_audio)
\* if transcriber.connected is seen within the 3 s of polling
delayed_reconnect(attach) ==
    /\ reconnects > 0
    /\ reconnects' = reconnects - 1
    /\ IF attach THEN BusAdd(send_audio) ELSE UNCHANGED <<consumers, failed_consumers, removed, raised>>
    /\ UNCHANGED <<current_mode, buffering, buffer_consumer,
                    transition_buffer, buffer_seq, session_active,
                    transcriber_paused, pcMain, pcC, op, returned, effects,
                    failure, race, nCalls, session_start_failed>>
    /\ UNCHANGED busLoopVars
    /\ UNCHANGED <<captured, delivered, input_active, live_audio, buffer_start,
                   flushed, flushes, discards>>
    /\ UNCHANGED nonCallVars

\* end_assistant_mode: the check and the move to TRANSITIONING under mode_lock
end_check_and_set(t) ==
    /\ pcC[t] = "cas" /\ op[t] = "end"
    /\ IF can_end_assistant(current_mode)
       THEN /\ current_mode' = "TRANSITIONING"
            /\ pcC' = [pcC EXCEPT ![t] = "e_notify"]
            /\ flushed' = <<>>
            /\ flushes' = 0
            /\ discards' = 0
            /\ UNCHANGED returned
       ELSE /\ pcC' = [pcC EXCEPT ![t] = "idle"]
            /\ returned' = [returned EXCEPT ![t] = "False"]
            /\ UNCHANGED <<current_mode, flushed, flushes, discards>>
    /\ UNCHANGED <<buffering, buffer_consumer, transition_buffer,
                    buffer_seq, session_active, transcriber_paused,
                    reconnects, pcMain, op, effects, failure, race, nCalls,
                    session_start_failed>>
    /\ UNCHANGED busVars
    /\ UNCHANGED <<captured, delivered, input_active, live_audio, buffer_start>>
    /\ UNCHANGED nonCallVars

\* end_assistant_mode: on_mode_change(TRANSITIONING), outside the try block
end_notify_transitioning(t, raises) ==
    /\ pcC[t] = "e_notify" /\ op[t] = "end"
    /\ effects' = [effects EXCEPT ![t] = TRUE]
    /\ IF raises
       THEN /\ pcC' = [pcC EXCEPT ![t] = "idle"]
            /\ returned' = [returned EXCEPT ![t] = "raised"]
            /\ failure' = [failure EXCEPT ![t] = "callback"]
       ELSE /\ pcC' = [pcC EXCEPT ![t] = "e_buffer"]
            /\ UNCHANGED <<returned, failure>>
    /\ UNCHANGED <<current_mode, buffering, buffer_consumer,
                    transition_buffer, buffer_seq, session_active,
                    transcriber_paused, reconnects, pcMain, op, race, nCalls,
                    session_start_failed>>
    /\ UNCHANGED busVars
    /\ UNCHANGED <<captured, delivered, input_active, live_audio, buffer_start,
                   flushed, flushes, discards>>
    /\ UNCHANGED nonCallVars

\* end_assistant_mode: _start_audio_buffering()
end_begin_buffering(t) ==
    /\ pcC[t] = "e_buffer" /\ op[t] = "end"
    /\ _start_audio_buffering
    /\ pcC' = [pcC EXCEPT ![t] = "e_session"]
    /\ UNCHANGED <<current_mode, session_active, transcriber_paused,
                    reconnects, pcMain, op, returned, effects, failure, race,
                    nCalls, session_start_failed>>
    /\ UNCHANGED busLoopVars
    /\ UNCHANGED <<captured, delivered, input_active, live_audio, flushed, flushes, discards>>
    /\ UNCHANGED nonCallVars

\* end_assistant_mode: realtime_session.end_session() if is_active(); the nested
\* on_session_end -> end_assistant_mode() finds TRANSITIONING and returns False
end_close_session(t, raises) ==
    /\ pcC[t] = "e_session" /\ op[t] = "end"
    /\ raises => session_active
    /\ session_active' = FALSE
    /\ IF raises
       THEN /\ failure' = [failure EXCEPT ![t] = "session"]
            /\ pcC' = [pcC EXCEPT ![t] = "x_mode"]
       ELSE /\ pcC' = [pcC EXCEPT ![t] = "e_resume"]
            /\ UNCHANGED failure
    /\ UNCHANGED <<current_mode, buffering, buffer_consumer,
                    transition_buffer, buffer_seq, transcriber_paused,
                    reconnects, pcMain, op, returned, effects, race, nCalls,
                    session_start_failed>>
    /\ UNCHANGED busVars
    /\ UNCHANGED <<captured, delivered, input_active, live_audio, buffer_start,
                   flushed, flushes, discards>>
    /\ UNCHANGED nonCallVars

\* end_assistant_mode: transcriber.resume()
end_resume_transcriber(t) ==
    /\ pcC[t] = "e_resume" /\ op[t] = "end"
    /\ transcriber_paused' = FALSE
    /\ pcC' = [pcC EXCEPT ![t] = "e_add"]
    /\ UNCHANGED <<current_mode, buffering, buffer_consumer,
                    transition_buffer, buffer_seq, session_active,
                    reconnects, pcMain, op, returned, effects, failure, race,
                    nCalls, session_start_failed>>
    /\ UNCHANGED busVars
    /\ UNCHANGED <<captured, delivered, input_active, live_audio, buffer_start,
                   flushed, flushes, discards>>
    /\ UNCHANGED nonCallVars

\* end_assistant_mode: audio_manager.add_consumer(transcriber.send_audio)
end_add_transcriber(t) ==
    /\ pcC[t] = "e_add" /\ op[t] = "end"
    /\ BusAdd(send_audio)
    /\ pcC' = [pcC EXCEPT ![t] = "e_stop"]
    /\ UNCHANGED <<current_mode, buffering, buffer_consumer,
                    transition_buffer, buffer_seq, session_active,
                    transcriber_paused, reconnects, pcMain, op, returned,
                    effects, failure, race, nCalls, session_start_failed>>
    /\ UNCHANGED busLoopVars
    /\ UNCHANGED <<captured, delivered, input_active, live_audio, buffer_start,
                   flushed, flushes, discards>>
    /\ UNCHANGED nonCallVars

\* end_assistant_mode: _stop_audio_buffering(flush_to_realtime=False)
end_stop_buffering(t) ==
    /\ pcC[t] = "e_stop" /\ op[t] = "end"
    /\ _stop_audio_buffering(FALSE)
    /\ pcC' = [pcC EXCEPT ![t] = "e_mode"]
    /\ UNCHANGED <<current_mode, buffer_seq, session_active,
                    transcriber_paused, reconnects, pcMain, op, returned,
                    effects, failure, race, nCalls, session_start_failed>>
    /\ UNCHANGED busLoopVars
    /\ UNCHANGED <<captured, delivered, input_active, live_audio, buffer_start>>
    /\ UNCHANGED nonCallVars

\* end_assistant_mode: current_mode = TRANSCRIPTION under mode_lock
end_set_transcription(t) ==
    /\ pcC[t] = "e_mode" /\ op[t] = "end"
    /\ current_mode' = "TRANSCRIPTION"
    /\ pcC' = [pcC EXCEPT ![t] = "e_notify2"]
    /\ UNCHANGED <<buffering, buffer_consumer, transition_buffer,
                    buffer_seq, session_active, transcriber_paused,
                    reconnects, pcMain, op, returned, effects, failure, race,
                    nCalls, session_start_failed>>
    /\ UNCHANGED busVars
    /\ UNCHANGED <<captured, delivered, input_active, live_audio, buffer_start,
                   flushed, flushes, discards>>
    /\ UNCHANGED nonCallVars

\* end_assistant_mode: on_mode_change(TRANSCRIPTION) inside the try block, then return True
end_notify_transcription(t, raises) ==
    /\ pcC[t] = "e_notify2" /\ op[t] = "end"
    /\ IF raises
       THEN /\ failure' = [failure EXCEPT ![t] = "callback"]
            /\ pcC' = [pcC EXCEPT ![t] = "x_mode"]
            /\ UNCHANGED returned
       ELSE /\ pcC' = [pcC EXCEPT ![t] = "idle"]
            /\ returned' = [returned EXCEPT ![t] = "True"]
            /\ UNCHANGED failure
    /\ UNCHANGED <<current_mode, buffering, buffer_consumer,
                    transition_buffer, buffer_seq, session_active,
                    transcriber_paused, reconnects, pcMain, op, effects,
                    race, nCalls, session_start_failed>>
    /\ UNCHANGED busVars
    /\ UNCHANGED <<captured, delivered, input_active, live_audio, buffer_start,
                   flushed, flushes, discards>>
    /\ UNCHANGED nonCallVars

\* end_assistant_mode, except clause: current_mode = ASSISTANT under mode_lock
end_except_set_assistant(t) ==
    /\ pcC[t] = "x_mode" /\ op[t] = "end"
    /\ current_mode' = "ASSISTANT"
    /\ pcC' = [pcC EXCEPT ![t] = "x_notify"]
    /\ UNCHANGED <<buffering, buffer_consumer, transition_buffer,
                    buffer_seq, session_active, transcriber_paused,
                    reconnects, pcMain, op, returned, effects, failure, race,
                    nCalls, session_start_failed>>
    /\ UNCHANGED busVars
    /\ UNCHANGED <<captured, delivered, input_active, live_audio, buffer_start,
                   flushed, flushes, discards>>
    /\ UNCHANGED nonCallVars

\* end_assistant_mode, except clause: on_mode_change(ASSISTANT), not guarded, then return False
end_except_notify(t, raises) ==
    /\ pcC[t] = "x_notify" /\ op[t] = "end"
    /\ pcC' = [pcC EXCEPT ![t] = "idle"]
    /\ returned' = [returned EXCEPT ![t] = IF raises THEN "raised" ELSE "False"]
    /\ UNCHANGED <<current_mode, buffering, buffer_consumer,
                    transition_buffer, buffer_seq, session_active,
                    transcriber_paused, reconnects, pcMain, op, effects,
                    failure, race, nCalls, session_start_failed>>
    /\ UNCHANGED busVars
    /\ UNCHANGED <<captured, delivered, input_active, live_audio, buffer_start,
                   flushed, flushes, discards>>
    /\ UNCHANGED nonCallVars

\* RealtimeSessionManager.end_session on its own thread (timeout, goodbye): the session
\* becomes inactive; its on_session_end callback is a call of end_assistant_mode()
end_session ==
    /\ session_active
    /\ session_active' = FALSE
    /\ UNCHANGED <<current_mode, buffering, buffer_consumer,
                    transition_buffer, buffer_seq, transcriber_paused,
                    reconnects, pcMain, pcC, op, returned, effects, failure,
                    race, nCalls, session_start_failed>>
    /\ UNCHANGED busVars
    /\ UNCHANGED <<captured, delivered, input_active, live_audio, buffer_start,
                   flushed, flushes, discards>>
    /\ UNCHANGED nonCallVars

\* the buffer_audio closure, invoked by the capture loop while it is registered
buffer_audio(chunk) ==
    /\ \E i \in 1..Len(consumers) : consumers[i] \in BufferConsumers
    /\ Len(transition_buffer) < MaxBuffered
    /\ transition_buffer' = IF buffering THEN put_nowait(transition_buffer, chunk) ELSE transition_buffer
    /\ UNCHANGED <<current_mode, buffering, buffer_consumer, buffer_seq,
                    session_active, transcriber_paused, reconnects, pcMain,
                    pcC, op, returned, effects, failure, race, nCalls,
                    session_start_failed>>
    /\ UNCHANGED busVars
    /\ UNCHANGED <<captured, delivered, input_active, live_audio, buffer_start,
                   flushed, flushes, discards>>
    /\ UNCHANGED nonCallVars

\* the closure called n times with the same chunk (once per registered closure)
RECURSIVE put_times(_, _, _)
put_times(q, chunk, n) == IF n = 0 THEN q ELSE put_times(put_nowait(q, chunk), chunk, n - 1)

\* one iteration of _audio_loop, run without interruption: the chunk read is
\* passed to every registered consumer that is not marked failed; send_audio
\* forwards it to the transcription API, a buffer_audio closure queues it while
\* buffering is on, _handle_input_audio forwards it to the session while the
\* handler and the session are active
capture(limit) ==
    /\ pcMain # "register"
    /\ captured < limit
    /\ LET chunk == captured + 1
           invoked == {c \in SeqToSet(consumers) : c \notin failed_consumers}
           closures == Cardinality({i \in 1..Len(consumers) :
                           consumers[i] \in BufferConsumers /\ consumers[i] \in invoked})
       IN /\ captured' = chunk
          /\ delivered' = Append(delivered, invoked)
          /\ transition_buffer' = IF buffering
                                  THEN put_times(transition_buffer, chunk, closures)
                                  ELSE transition_buffer
          /\ live_audio' = IF /\ _handle_input_audio \in invoked
                              /\ input_active
                              /\ session_active
                           THEN Append(live_audio, chunk)
                           ELSE live_audio
    /\ UNCHANGED <<current_mode, buffering, buffer_consumer, buffer_seq,
                   session_active, transcriber_paused, reconnects, pcMain,
                   pcC, op, returned, effects, failure, race, nCalls,
                   session_start_failed, input_active, buffer_start,
                   flushed, flushes, discards>>
    /\ UNCHANGED busVars
    /\ UNCHANGED nonCallVars

\* _handle_assistant_trigger: start_assistant_mode() returned True, so
\* realtime_audio.start() registers _handle_input_audio and sets input_active
realtime_audio_start(t) ==
    /\ pcC[t] = "idle" /\ op[t] = "start" /\ returned[t] = "True"
    /\ ~input_active
    /\ BusAdd(_handle_input_audio)
    /\ input_active' = TRUE
    /\ UNCHANGED <<current_mode, buffering, buffer_consumer, transition_buffer,
                   buffer_seq, session_active, transcriber_paused, reconnects,
                   pcMain, pcC, op, returned, effects, failure, race, nCalls,
                   session_start_failed, captured, delivered, live_audio,
                   buffer_start, flushed, flushes, discards>>
    /\ UNCHANGED busLoopVars
    /\ UNCHANGED nonCallVars

\* the thread that runs shutdown(), and with it the nested end_assistant_mode()
ShutdownThread == "t2"

\* shutdown: if self.buffering: _stop_audio_buffering(flush_to_realtime=False)
shutdown_stop_buffering ==
    /\ pcMain = "running"
    /\ pcSd = "idle"
    /\ pcC[ShutdownThread] = "idle"
    /\ IF buffering
       THEN _stop_audio_buffering(FALSE)
       ELSE UNCHANGED <<buffering, buffer_consumer, transition_buffer, flushed,
                        flushes, discards, consumers, failed_consumers, removed, raised>>
    /\ pcSd' = "sd_end"
    /\ UNCHANGED <<current_mode, buffer_seq, session_active, transcriber_paused,
                   reconnects, pcMain, pcC, op, returned, effects, failure, race,
                   nCalls, session_start_failed, captured, delivered,
                   input_active, live_audio, buffer_start, pcR>>
    /\ UNCHANGED busLoopVars
    /\ UNCHANGED nonCoordVars

\* shutdown: if self.current_mode == ASSISTANT: end_assistant_mode(), inside try/except
shutdown_end_assistant ==
    /\ pcSd = "sd_end"
    /\ IF current_mode = "ASSISTANT"
       THEN /\ pcC' = [pcC EXCEPT ![ShutdownThread] = "cas"]
            /\ op' = [op EXCEPT ![ShutdownThread] = "end"]
            /\ returned' = [returned EXCEPT ![ShutdownThread] = "none"]
            /\ effects' = [effects EXCEPT ![ShutdownThread] = FALSE]
            /\ failure' = [failure EXCEPT ![ShutdownThread] = "no"]
            /\ pcSd' = "sd_wait"
       ELSE /\ pcSd' = "sd_stop"
            /\ UNCHANGED <<pcC, op, returned, effects, failure>>
    /\ UNCHANGED <<current_mode, buffering, buffer_consumer, transition_buffer,
                   buffer_seq, session_active, transcriber_paused, reconnects,
                   pcMain, race, nCalls, session_start_failed, captured,
                   delivered, input_active, live_audio, buffer_start, flushed,
                   flushes, discards, pcR>>
    /\ UNCHANGED busVars
    /\ UNCHANGED nonCoordVars

\* shutdown: the nested end_assistant_mode() has returned or raised;
\* transcriber.stop() and realtime_session.shutdown()
shutdown_stop_collaborators ==
    /\ \/ pcSd = "sd_stop"
       \/ pcSd = "sd_wait" /\ pcC[ShutdownThread] = "idle"
    /\ session_active' = FALSE
    /\ pcSd' = "sd_mode"
    /\ UNCHANGED <<current_mode, buffering, buffer_consumer, transition_buffer,
                   buffer_seq, transcriber_paused, reconnects, pcMain, pcC, op,
                   returned, effects, failure, race, nCalls,
                   session_start_failed, captured, delivered, input_active,
                   live_audio, buffer_start, flushed, flushes, discards, pcR>>
    /\ UNCHANGED busVars
    /\ UNCHANGED nonCoordVars

\* shutdown: current_mode = DISCONNECTED under mode_lock
shutdown_set_disconnected ==
    /\ pcSd = "sd_mode"
    /\ current_mode' = "DISCONNECTED"
    /\ pcSd' = "done"
    /\ UNCHANGED <<buffering, buffer_consumer, transition_buffer, buffer_seq,
                   session_active, transcriber_paused, reconnects, pcMain, pcC,
                   op, returned, effects, failure, race, nCalls,
                   session_start_failed, captured, delivered, input_active,
                   live_audio, buffer_start, flushed, flushes, discards, pcR>>
    /\ UNCHANGED busVars
    /\ UNCHANGED nonCoordVars

\* handle_connection_error(mode, error): in TRANSCRIPTION mode it starts a
\* thread running _reconnect_transcription, in ASSISTANT mode it calls
\* end_assistant_mode()
handle_connection_error(t, mode) ==
    /\ pcMain = "running"
    /\ pcC[t] = "idle"
    /\ nCalls < MaxCalls
    /\ nCalls' = nCalls + 1
    /\ IF mode = "TRANSCRIPTION"
       THEN /\ pcR = "idle"
            /\ pcR' = "connect"
            /\ UNCHANGED <<pcC, op, returned, effects, failure, race>>
       ELSE /\ pcC' = [pcC EXCEPT ![t] = "cas"]
            /\ op' = [op EXCEPT ![t] = "end"]
            /\ returned' = [returned EXCEPT ![t] = "none"]
            /\ effects' = [effects EXCEPT ![t] = FALSE]
            /\ failure' = [failure EXCEPT ![t] = "no"]
            /\ race' = FALSE
            /\ UNCHANGED pcR
    /\ UNCHANGED <<current_mode, buffering, buffer_consumer, transition_buffer,
                   buffer_seq, session_active, transcriber_paused, reconnects,
                   pcMain, session_start_failed, captured, delivered,
                   input_active, live_audio, buffer_start, flushed, flushes,
                   discards, pcSd>>
    /\ UNCHANGED busVars
    /\ UNCHANGED nonCoordVars

\* _reconnect_transcription: when a transcriber.connect() attempt returns the
\* mode is set to TRANSCRIPTION; when all three attempts raise it is set to
\* DISCONNECTED; both writes are made under mode_lock without a look at the mode
_reconnect_transcription(connected) ==
    /\ pcR = "connect"
    /\ current_mode' = IF connected THEN "TRANSCRIPTION" ELSE "DISCONNECTED"
    /\ pcR' = "idle"
    /\ UNCHANGED <<buffering, buffer_consumer, transition_buffer, buffer_seq,
                   session_active, transcriber_paused, reconnects, pcMain, pcC,
                   op, returned, effects, failure, race, nCalls,
                   session_start_failed, captured, delivered, input_active,
                   live_audio, buffer_start, flushed, flushes, discards, pcSd>>
    /\ UNCHANGED busVars
    /\ UNCHANGED nonCoordVars

NextCoord ==
    \/ register_transcriber
    \/ initialize_transcription_mode
    \/ \E t \in CoordThreads : call_start_assistant_mode(t)
    \/ \E t \in CoordThreads : call_end_assistant_mode(t)
    \/ \E t \in CoordThreads : start_check_and_set(t)
    \/ \E t \in CoordThreads : start_notify_transitioning(t)
    \/ \E t \in CoordThreads : start_begin_buffering(t)
    \/ \E t \in CoordThreads : start_remove_transcriber(t)
    \/ \E t \in CoordThreads : start_pause_transcriber(t)
    \/ \E t \in CoordThreads, raises \in BOOLEAN : start_get_context(t, raises)
    \/ \E t \in CoordThreads, success \in BOOLEAN : start_session(t, success)
    \/ \E t \in CoordThreads : start_flush_buffer(t)
    \/ \E t \in CoordThreads : start_set_assistant(t)
    \/ \E t \in CoordThreads, raises \in BOOLEAN : start_notify_assistant(t, raises)
    \/ \E t \in CoordThreads : rollback_stop_buffering(t)
    \/ \E t \in CoordThreads : rollback_spawn_reconnect(t)
    \/ \E t \in CoordThreads : rollback_set_transcription(t)
    \/ \E t \in CoordThreads : rollback_notify(t)
    \/ \E attach \in BOOLEAN : delayed_reconnect(attach)
    \/ \E t \in CoordThreads : end_check_and_set(t)
    \/ \E t \in CoordThreads, raises \in BOOLEAN : end_notify_transitioning(t, raises)
    \/ \E t \in CoordThreads : end_begin_buffering(t)
    \/ \E t \in CoordThreads, raises \in BOOLEAN : end_close_session(t, raises)
    \/ \E t \in CoordThreads : end_resume_transcriber(t)
    \/ \E t \in CoordThreads : end_add_transcriber(t)
    \/ \E t \in CoordThreads : end_stop_buffering(t)
    \/ \E t \in CoordThreads : end_set_transcription(t)
    \/ \E t \in CoordThreads, raises \in BOOLEAN : end_notify_transcription(t, raises)
    \/ \E t \in CoordThreads : end_except_set_assistant(t)
    \/ \E t \in CoordThreads, raises \in BOOLEAN : end_except_notify(t, raises)
    \/ end_session
    \/ \E chunk \in Chunks : buffer_audio(chunk)

\* one calling thread, the thread shutdown() runs on, and the reconnect thread
NextLifecycle ==
    \/ register_transcriber
    \/ initialize_transcription_mode
    \/ \E t \in SwitchThreads : call_start_assistant_mode(t)
    \/ \E t \in SwitchThreads : call_end_assistant_mode(t)
    \/ \E t \in SwitchThreads : start_check_and_set(t)
    \/ \E t \in SwitchThreads : start_notify_transitioning(t)
    \/ \E t \in SwitchThreads : start_begin_buffering(t)
    \/ \E t \in SwitchThreads : start_remove_transcriber(t)
    \/ \E t \in SwitchThreads : start_pause_transcriber(t)
    \/ \E t \in SwitchThreads, raises \in BOOLEAN : start_get_context(t, raises)
    \/ \E t \in SwitchThreads, success \in BOOLEAN : start_session(t, success)
    \/ \E t \in SwitchThreads : start_flush_buffer(t)
    \/ \E t \in SwitchThreads : start_set_assistant(t)
    \/ \E t \in SwitchThreads, raises \in BOOLEAN : start_notify_assistant(t, raises)
    \/ \E t \in SwitchThreads : rollback_stop_buffering(t)
    \/ \E t \in SwitchThreads : rollback_spawn_reconnect(t)
    \/ \E t \in SwitchThreads : rollback_set_transcription(t)
    \/ \E t \in SwitchThreads : rollback_notify(t)
    \/ \E attach \in BOOLEAN : delayed_reconnect(attach)
    \/ \E t \in CoordThreads : end_check_and_set(t)
    \/ \E t \in CoordThreads, raises \in BOOLEAN : end_notify_transitioning(t, raises)
    \/ \E t \in CoordThreads : end_begin_buffering(t)
    \/ \E t \in CoordThreads, raises \in BOOLEAN : end_close_session(t, raises)
    \/ \E t \in CoordThreads : end_resume_transcriber(t)
    \/ \E t \in CoordThreads : end_add_transcriber(t)
    \/ \E t \in CoordThreads : end_stop_buffering(t)
    \/ \E t \in CoordThreads : end_set_transcription(t)
    \/ \E t \in CoordThreads, raises \in BOOLEAN : end_notify_transcription(t, raises)
    \/ \E t \in CoordThreads : end_except_set_assistant(t)
    \/ \E t \in CoordThreads, raises \in BOOLEAN : end_except_notify(t, raises)
    \/ end_session
    \/ shutdown_stop_buffering
    \/ shutdown_end_assistant
    \/ shutdown_stop_collaborators
    \/ shutdown_set_disconnected
    \/ \E t \in SwitchThreads, mode \in {"TRANSCRIPTION", "ASSISTANT"} : handle_connection_error(t, mode)
    \/ \E connected \in BOOLEAN : _reconnect_transcription(connected)

\* one thread switching to the assistant while another thread runs shutdown()
NextStartShutdown ==
    \/ register_transcriber
    \/ initialize_transcription_mode
    \/ \E t \in SwitchThreads : call_start_assistant_mode(t)
    \/ \E t \in SwitchThreads : start_check_and_set(t)
    \/ \E t \in SwitchThreads : start_notify_transitioning(t)
    \/ \E t \in SwitchThreads : start_begin_buffering(t)
    \/ \E t \in SwitchThreads : start_remove_transcriber(t)
    \/ \E t \in SwitchThreads : start_pause_transcriber(t)
    \/ \E t \in SwitchThreads, raises \in BOOLEAN : start_get_context(t, raises)
    \/ \E t \in SwitchThreads, success \in BOOLEAN : start_session(t, success)
    \/ \E t \in SwitchThreads : start_flush_buffer(t)
    \/ \E t \in SwitchThreads : start_set_assistant(t)
    \/ \E t \in SwitchThreads, raises \in BOOLEAN : start_notify_assistant(t, raises)
    \/ \E t \in SwitchThreads : rollback_stop_buffering(t)
    \/ \E t \in SwitchThreads : rollback_spawn_reconnect(t)
    \/ \E t \in SwitchThreads : rollback_set_transcription(t)
    \/ \E t \in SwitchThreads : rollback_notify(t)
    \/ \E attach \in BOOLEAN : delayed_reconnect(attach)
    \/ \E t \in CoordThreads : end_check_and_set(t)
    \/ \E t \in CoordThreads, raises \in BOOLEAN : end_notify_transitioning(t, raises)
    \/ \E t \in CoordThreads : end_begin_buffering(t)
    \/ \E t \in CoordThreads, raises \in BOOLEAN : end_close_session(t, raises)
    \/ \E t \in CoordThreads : end_resume_transcriber(t)
    \/ \E t \in CoordThreads : end_add_transcriber(t)
    \/ \E t \in CoordThreads : end_stop_buffering(t)
    \/ \E t \in CoordThreads : end_set_transcription(t)
    \/ \E t \in CoordThreads, raises \in BOOLEAN : end_notify_transcription(t, raises)
    \/ \E t \in CoordThreads : end_except_set_assistant(t)
    \/ \E t \in CoordThreads, raises \in BOOLEAN : end_except_notify(t, raises)
    \/ shutdown_stop_buffering
    \/ shutdown_end_assistant
    \/ shutdown_stop_collaborators
    \/ shutdown_set_disconnected

\* the start of one transition with a long stream of chunks behind it
NextBuffer ==
    \/ register_transcriber
    \/ initialize_transcription_mode
    \/ \E t \in SwitchThreads : call_start_assistant_mode(t)
    \/ \E t \in SwitchThreads : start_check_and_set(t)
    \/ \E t \in SwitchThreads : start_notify_transitioning(t)
    \/ \E t \in SwitchThreads : start_begin_buffering(t)
    \/ capture(MaxStream)

\* one thread switching to the assistant while the capture loop runs
NextSwitch ==
    \/ register_transcriber
    \/ initialize_transcription_mode
    \/ \E t \in SwitchThreads : call_start_assistant_mode(t)
    \/ \E t \in SwitchThreads : start_check_and_set(t)
    \/ \E t \in SwitchThreads : start_notify_transitioning(t)
    \/ \E t \in SwitchThreads : start_begin_buffering(t)
    \/ \E t \in SwitchThreads : start_remove_transcriber(t)
    \/ \E t \in SwitchThreads : start_pause_transcriber(t)
    \/ \E t \in SwitchThreads, raises \in BOOLEAN : start_get_context(t, raises)
    \/ \E t \in SwitchThreads, success \in BOOLEAN : start_session(t, success)
    \/ \E t \in SwitchThreads : start_flush_buffer(t)
    \/ \E t \in SwitchThreads : start_set_assistant(t)
    \/ \E t \in SwitchThreads, raises \in BOOLEAN : start_notify_assistant(t, raises)
    \/ \E t \in SwitchThreads : rollback_stop_buffering(t)
    \/ \E t \in SwitchThreads : rollback_spawn_reconnect(t)
    \/ \E t \in SwitchThreads : rollback_set_transcription(t)
    \/ \E t \in SwitchThreads : rollback_notify(t)
    \/ \E attach \in BOOLEAN : delayed_reconnect(attach)
    \/ \E t \in SwitchThreads : realtime_audio_start(t)
    \/ end_session
    \/ capture(MaxChunks)

(***************************************************************************)
(* VoiceAssistant.stop and TriggerManager.shutdown                         *)
(***************************************************************************)
InitStop ==
    /\ pcStop = "idle"
    /\ executor_shutdown = FALSE

trigRestVars == <<request_counter, latest_request_number, request_id_to_number,
                  custom_execute_installed, pcP, pReq, pcW, request, done, best,
                  supersededAtWait, latestAtCheck, actionLog, discarded>>

\* stop(): audio_manager.remove_consumer(self.transcriber.send_audio), once the
\* assistant has been started
stop_remove_transcriber ==
    /\ pcStop = "idle"
    /\ pcMain = "running"
    /\ running
    /\ pcS = "idle"
    /\ BusRemove(send_audio)
    /\ pcStop' = "realtime"
    /\ UNCHANGED busLoopVars
    /\ UNCHANGED <<trigVars, coordVars, selVars, executor_shutdown, queueVars, admitVars, stateVars>>

\* stop(): realtime_audio.stop() and realtime_session.end_session(), each if active
stop_realtime ==
    /\ pcStop = "realtime"
    /\ input_active' = FALSE
    /\ session_active' = FALSE
    /\ pcStop' = "coordinator"
    /\ UNCHANGED <<current_mode, buffering, buffer_consumer, transition_buffer,
                   buffer_seq, transcriber_paused, reconnects, pcMain, pcC, op,
                   returned, effects, failure, race, nCalls, session_start_failed,
                   captured, delivered, live_audio, buffer_start, flushed, flushes,
                   discards, pcSd, pcR>>
    /\ UNCHANGED <<trigVars, busVars, selVars, executor_shutdown, queueVars, admitVars, stateVars>>

\* stop(): connection_coordinator.shutdown()
stop_coordinator_shutdown ==
    /\ pcStop = "coordinator"
    /\ shutdown_stop_buffering

\* TriggerManager.shutdown(), called by stop() once the coordinator's shutdown()
\* has returned: _cancel_pending_validations()
shutdown_cancel_pending ==
    /\ pcStop = "coordinator"
    /\ pcSd = "done"
    /\ future' = [r \in RequestIds |->
                    IF r \in active_requests
                    THEN [t \in TriggerNames |-> cancel(future[r][t])]
                    ELSE future[r]]
    /\ active_requests' = {}
    /\ pcStop' = "tm_queue"
    /\ UNCHANGED <<request_queue, trigRestVars>>
    /\ UNCHANGED <<busVars, coordVars, selVars, executor_shutdown, queueVars, admitVars, stateVars>>

\* TriggerManager.shutdown(): the loop of get_nowait() until the queue is empty
shutdown_clear_queue ==
    /\ pcStop = "tm_queue"
    /\ request_queue' = <<>>
    /\ pcStop' = "tm_executor"
    /\ UNCHANGED <<active_requests, future, trigRestVars>>
    /\ UNCHANGED <<busVars, coordVars, selVars, executor_shutdown, queueVars, admitVars, stateVars>>

\* TriggerManager.shutdown(): executor.shutdown(wait=True) marks the pool as
\* shut down
shutdown_executor ==
    /\ pcStop = "tm_executor"
    /\ executor_shutdown' = TRUE
    /\ pcStop' = "tm_wait"
    /\ UNCHANGED <<trigVars, busVars, coordVars, selVars, queueVars, admitVars, stateVars>>

\* executor.shutdown(wait=True) returns when no submitted call is queued or running
pool_idle ==
    \A r \in RequestIds, t \in TriggerNames : future[r][t].state \notin {"queued", "running"}

\* TriggerManager.shutdown() returns
shutdown_executor_wait ==
    /\ pcStop = "tm_wait"
    /\ pool_idle
    /\ pcStop' = "context"
    /\ UNCHANGED <<trigVars, busVars, coordVars, selVars, executor_shutdown, queueVars, admitVars, stateVars>>

\* stop(): context_manager, auto_save_manager, context_access and audio_output
\* are stopped
stop_context_and_output ==
    /\ pcStop = "context"
    /\ pcStop' = "audio"
    /\ UNCHANGED <<trigVars, busVars, coordVars, selVars, executor_shutdown, queueVars, admitVars, stateVars>>

\* stop(): audio_manager.stop()
stop_audio_manager ==
    /\ pcStop = "audio"
    /\ stop_signal

\* stop(): every thread of self.threads is joined with timeout=2.0
stop_join_threads ==
    /\ pcStop = "audio"
    /\ pcS = "done"
    /\ pcStop' = "done"
    /\ UNCHANGED <<trigVars, busVars, coordVars, selVars, executor_shutdown, queueVars, admitVars, stateVars>>

\* the steps of the thread that runs VoiceAssistant.stop
StopThread ==
    \/ stop_remove_transcriber
    \/ stop_realtime
    \/ stop_coordinator_shutdown
    \/ shutdown_end_assistant
    \/ shutdown_stop_collaborators
    \/ shutdown_set_disconnected
    \/ shutdown_cancel_pending
    \/ shutdown_clear_queue
    \/ shutdown_executor
    \/ shutdown_executor_wait
    \/ stop_context_and_output
    \/ stop_audio_manager
    \/ stop_clear
    \/ stop_join_threads

\* the steps of the worker thread of the TriggerManager
WorkerThread ==
    \/ _process_request_queue
    \/ submit_validations
    \/ store_active_futures
    \/ wait_returns
    \/ recheck_latest
    \/ collect_and_select
    \/ _execute_trigger(FALSE)
    \/ cleanup_request

\* a free thread of the pool picks a queued validation up
PoolThreads == \E r \in RequestIds, t \in TriggerNames : validation_start(r, t)

\* the trigger pipeline fed by one transcription thread, next to one call of
\* VoiceAssistant.stop
NextShutdown ==
    \/ register_transcriber
    \/ initialize_transcription_mode
    \/ start
    \/ \E text \in Texts : process_transcription("p1", text)
    \/ _cancel_pending_validations("p1")
    \/ queue_put("p1")
    \/ _process_request_queue
    \/ submit_validations
    \/ store_active_futures
    \/ \E r \in RequestIds, t \in TriggerNames : validation_start(r, t)
    \/ \E r \in RequestIds, t \in TriggerNames, res \in ValidationResults : _run_validation_only(r, t, res)
    \/ wait_returns
    \/ recheck_latest
    \/ collect_and_select
    \/ _execute_trigger(FALSE)
    \/ cleanup_request
    \/ stop_remove_transcriber
    \/ stop_realtime
    \/ stop_coordinator_shutdown
    \/ shutdown_end_assistant
    \/ shutdown_stop_collaborators
    \/ shutdown_set_disconnected
    \/ shutdown_cancel_pending
    \/ shutdown_clear_queue
    \/ shutdown_executor
    \/ shutdown_executor_wait
    \/ stop_context_and_output
    \/ stop_audio_manager
    \/ stop_clear
    \/ stop_join_threads

(***************************************************************************)
(* Transcriptions handed to the trigger manager                            *)
(***************************************************************************)
InitAdmit ==
    /\ enabled = [t \in TriggerNames |-> TRUE]
    /\ transcriptions = 0
    /\ last_text = <<>>

\* trigger.enabled is a public attribute of BaseTrigger, True after __init__;
\* the embedding application may assign it at any time
set_enabled(t, b) ==
    /\ enabled[t] # b
    /\ enabled' = [enabled EXCEPT ![t] = b]
    /\ UNCHANGED <<transcriptions, last_text>>
    /\ UNCHANGED <<trigVars, busVars, coordVars, selVars, stopVars, queueVars, stateVars>>

\* custom_process(text): the transcriber's callback, which hands the text to
\* the original process_transcription
custom_process(p, text) ==
    /\ transcriptions < MaxTranscriptions
    /\ _original_process(p, text)
    /\ transcriptions' = transcriptions + 1
    /\ last_text' = text
    /\ UNCHANGED <<enabled, busVars, coordVars, selVars, stopVars, queueVars, stateVars>>

\* transcriptions arriving while earlier requests are being validated
NextAdmit ==
    \/ \E t \in TriggerNames, b \in BOOLEAN : set_enabled(t, b)
    \/ \E text \in Texts : custom_process("p1", text)
    \/ _cancel_pending_validations("p1")
    \/ queue_put("p1")
    \/ _process_request_queue
    \/ submit_validations
    \/ store_active_futures
    \/ \E r \in RequestIds, t \in TriggerNames : validation_start(r, t)

(***************************************************************************)
(* StateManager                                                            *)
(***************************************************************************)
AppState == {"INITIALIZING", "LISTENING", "ASSISTANT_ACTIVATING", "ASSISTANT_ACTIVE",
             "ASSISTANT_CLOSING", "ERROR", "SHUTTING_DOWN"}

VALID_TRANSITIONS ==
    [s \in AppState |->
       CASE s = "INITIALIZING" -> {"LISTENING", "ERROR"}
         [] s = "LISTENING" -> {"ASSISTANT_ACTIVATING", "ERROR", "SHUTTING_DOWN"}
         [] s = "ASSISTANT_ACTIVATING" -> {"ASSISTANT_ACTIVE", "LISTENING", "ERROR"}
         [] s = "ASSISTANT_ACTIVE" -> {"ASSISTANT_CLOSING", "ERROR"}
         [] s = "ASSISTANT_CLOSING" -> {"LISTENING", "ERROR"}
         [] s = "ERROR" -> {"LISTENING", "SHUTTING_DOWN"}
         [] s = "SHUTTING_DOWN" -> {}]

max_history == 100

StateMethods == {"transition_to", "reset_error_state", "emergency_shutdown"}

InitState ==
    /\ current_state = "INITIALIZING"
    /\ state_lock = "none"
    /\ transitions = <<>>
    /\ error_count = 0
    /\ pcSm = [t \in StateThreads |-> "idle"]
    /\ sm_method = [t \in StateThreads |-> "none"]
    /\ sm_new = [t \in StateThreads |-> "INITIALIZING"]
    /\ sm_old = [t \in StateThreads |-> "INITIALIZING"]
    /\ sm_returned = [t \in StateThreads |-> "none"]
    /\ sm_calls = 0
    /\ last_notified = <<>>

\* a transition_to that accepts every target
_is_valid_transition_any(from_state, to_state) == TRUE

_is_valid_transition(from_state, to_state) == to_state \in VALID_TRANSITIONS[from_state]

\* the last max_history records
trim_history(h) ==
    IF Len(h) > max_history THEN SubSeq(h, Len(h) - max_history + 1, Len(h)) ELSE h

\* a thread calls transition_to(new_state), reset_error_state(new_state) or
\* emergency_shutdown()
call_state_manager(t, method, new_state) ==
    /\ pcSm[t] = "idle"
    /\ sm_calls < MaxStateCalls
    /\ sm_calls' = sm_calls + 1
    /\ sm_method' = [sm_method EXCEPT ![t] = method]
    /\ sm_new' = [sm_new EXCEPT ![t] = IF method = "emergency_shutdown"
                                       THEN "SHUTTING_DOWN" ELSE new_state]
    /\ sm_returned' = [sm_returned EXCEPT ![t] = "none"]
    /\ pcSm' = [pcSm EXCEPT ![t] = CASE method = "transition_to" -> "tt_lock"
                                     [] method = "reset_error_state" -> "re_lock"
                                     [] method = "emergency_shutdown" -> "es_lock"]
    /\ UNCHANGED <<current_state, state_lock, transitions, error_count, sm_old, last_notified>>
    /\ UNCHANGED nonStateVars

\* transition_to: the block under state_lock, a re-entrant lock: the thread
\* that holds it through reset_error_state enters, and still holds it after
transition_to_locked(t) ==
    /\ pcSm[t] = "tt_lock"
    /\ state_lock \in {"none", t}
    /\ IF ~_is_valid_transition(current_state, sm_new[t])
       THEN /\ sm_returned' = [sm_returned EXCEPT ![t] = "False"]
            /\ pcSm' = [pcSm EXCEPT ![t] = IF state_lock = t THEN "re_unlock" ELSE "idle"]
            /\ UNCHANGED <<current_state, transitions, error_count, sm_old>>
       ELSE /\ transitions' = trim_history(Append(transitions, <<current_state, sm_new[t]>>))
            /\ sm_old' = [sm_old EXCEPT ![t] = current_state]
            /\ current_state' = sm_new[t]
            /\ error_count' = IF sm_new[t] = "ERROR" THEN error_count + 1 ELSE error_count
            /\ pcSm' = [pcSm EXCEPT ![t] = "tt_notify"]
            /\ UNCHANGED sm_returned
    /\ UNCHANGED <<state_lock, sm_method, sm_new, sm_calls, last_notified>>
    /\ UNCHANGED nonStateVars

\* transition_to: _notify_listeners(old_state, new_state), then return True
transition_to_notify(t) ==
    /\ pcSm[t] = "tt_notify"
    /\ last_notified' = <<sm_old[t], sm_new[t]>>
    /\ sm_returned' = [sm_returned EXCEPT ![t] = "True"]
    /\ pcSm' = [pcSm EXCEPT ![t] = IF state_lock = t THEN "re_unlock" ELSE "idle"]
    /\ UNCHANGED <<current_state, state_lock, transitions, error_count, sm_method,
                   sm_new, sm_old, sm_calls>>
    /\ UNCHANGED nonStateVars

\* reset_error_state: with self.state_lock; outside ERROR it returns False,
\* otherwise it calls transition_to inside the with block
reset_error_state_locked(t) ==
    /\ pcSm[t] = "re_lock"
    /\ state_lock = "none"
    /\ IF current_state # "ERROR"
       THEN /\ sm_returned' = [sm_returned EXCEPT ![t] = "False"]
            /\ pcSm' = [pcSm EXCEPT ![t] = "idle"]
            /\ UNCHANGED state_lock
       ELSE /\ state_lock' = t
            /\ pcSm' = [pcSm EXCEPT ![t] = "tt_lock"]
            /\ UNCHANGED sm_returned
    /\ UNCHANGED <<current_state, transitions, error_count, sm_method, sm_new, sm_old,
                   sm_calls, last_notified>>
    /\ UNCHANGED nonStateVars

\* reset_error_state: transition_to has returned, the with block is left
reset_error_state_unlock(t) ==
    /\ pcSm[t] = "re_unlock"
    /\ state_lock' = "none"
    /\ pcSm' = [pcSm EXCEPT ![t] = "idle"]
    /\ UNCHANGED <<current_state, transitions, error_count, sm_method, sm_new, sm_old,
                   sm_returned, sm_calls, last_notified>>
    /\ UNCHANGED nonStateVars

\* emergency_shutdown: the block under state_lock
emergency_shutdown_locked(t) ==
    /\ pcSm[t] = "es_lock"
    /\ state_lock = "none"
    /\ sm_old' = [sm_old EXCEPT ![t] = current_state]
    /\ current_state' = "SHUTTING_DOWN"
    /\ transitions' = Append(transitions, <<current_state, "SHUTTING_DOWN">>)
    /\ pcSm' = [pcSm EXCEPT ![t] = "es_notify"]
    /\ UNCHANGED <<state_lock, error_count, sm_method, sm_new, sm_returned, sm_calls,
                   last_notified>>
    /\ UNCHANGED nonStateVars

\* emergency_shutdown: _notify_listeners(old_state, SHUTTING_DOWN)
emergency_shutdown_notify(t) ==
    /\ pcSm[t] = "es_notify"
    /\ last_notified' = <<sm_old[t], "SHUTTING_DOWN">>
    /\ pcSm' = [pcSm EXCEPT ![t] = "idle"]
    /\ UNCHANGED <<current_state, state_lock, transitions, error_count, sm_method,
                   sm_new, sm_old, sm_returned, sm_calls>>
    /\ UNCHANGED nonStateVars

NextState ==
    \/ \E t \in StateThreads, method \in StateMethods, new_state \in AppState : call_state_manager(t, method, new_state)
    \/ \E t \in StateThreads : transition_to_locked(t)
    \/ \E t \in StateThreads : transition_to_notify(t)
    \/ \E t \in StateThreads : reset_error_state_locked(t)
    \/ \E t \in StateThreads : reset_error_state_unlock(t)
    \/ \E t \in StateThreads : emergency_shutdown_locked(t)
    \/ \E t \in StateThreads : emergency_shutdown_notify(t)

(***************************************************************************)
(* RequestQueue and TriggerPipeline                                        *)
(***************************************************************************)
NoTriggerRequest == 0

InitQueue ==
    /\ rq_counter = 0
    /\ rq_queue = <<>>
    /\ pcAdd = "idle"
    /\ pcQ = "get"
    /\ rq_request = NoTriggerRequest
    /\ newer_requests = <<>>
    /\ should_skip = FALSE
    /\ processed = <<>>
    /\ validating_since = 0
    /\ executed = {}

\* add_request: self._request_counter += 1 and the TriggerRequest is built
add_request ==
    /\ pcAdd = "idle"
    /\ rq_counter < MaxAdded
    /\ rq_counter' = rq_counter + 1
    /\ pcAdd' = "put"
    /\ UNCHANGED <<rq_queue, pcQ, rq_request, newer_requests, should_skip,
                   processed, validating_since, executed>>
    /\ UNCHANGED nonQueueVars

\* add_request: self._queue.put(request)
add_request_put ==
    /\ pcAdd = "put"
    /\ rq_queue' = Append(rq_queue, rq_counter)
    /\ pcAdd' = "idle"
    /\ UNCHANGED <<rq_counter, pcQ, rq_request, newer_requests, should_skip,
                   processed, validating_since, executed>>
    /\ UNCHANGED nonQueueVars

\* _process_queue: request = self._queue.get(timeout=0.1)
_process_queue ==
    /\ pcQ = "get"
    /\ rq_queue # <<>>
    /\ rq_request' = Head(rq_queue)
    /\ rq_queue' = Tail(rq_queue)
    /\ newer_requests' = <<>>
    /\ should_skip' = FALSE
    /\ pcQ' = "drain"
    /\ UNCHANGED <<rq_counter, pcAdd, processed, validating_since, executed>>
    /\ UNCHANGED nonQueueVars

\* _should_skip_request: one turn of the loop around get_nowait(); Empty ends it
_should_skip_request ==
    /\ pcQ = "drain"
    /\ IF rq_queue = <<>>
       THEN /\ pcQ' = "putback"
            /\ UNCHANGED <<rq_queue, newer_requests, should_skip>>
       ELSE /\ newer_requests' = Append(newer_requests, Head(rq_queue))
            /\ rq_queue' = Tail(rq_queue)
            /\ should_skip' = (should_skip \/ Head(rq_queue) > rq_request)
            /\ UNCHANGED pcQ
    /\ UNCHANGED <<rq_counter, pcAdd, rq_request, processed, validating_since,
                   executed>>
    /\ UNCHANGED nonQueueVars

\* _should_skip_request: one turn of the loop that puts the items back; after
\* the last one _process_queue skips the request or goes on to the callback
put_back ==
    /\ pcQ = "putback"
    /\ IF newer_requests # <<>>
       THEN /\ rq_queue' = Append(rq_queue, Head(newer_requests))
            /\ newer_requests' = Tail(newer_requests)
            /\ UNCHANGED <<pcQ, rq_request>>
       ELSE /\ pcQ' = IF should_skip THEN "get" ELSE "callback"
            /\ rq_request' = IF should_skip THEN NoTriggerRequest ELSE rq_request
            /\ UNCHANGED <<rq_queue, newer_requests>>
    /\ UNCHANGED <<rq_counter, pcAdd, should_skip, processed, validating_since,
                   executed>>
    /\ UNCHANGED nonQueueVars

\* TriggerPipeline._process_request is entered: validate_triggers submits the
\* validations and waits for them
_process_request ==
    /\ pcQ = "callback"
    /\ processed' = Append(processed, rq_request)
    /\ validating_since' = rq_counter
    /\ pcQ' = "validate"
    /\ UNCHANGED <<rq_counter, rq_queue, pcAdd, rq_request, newer_requests,
                   should_skip, executed>>
    /\ UNCHANGED nonQueueVars

\* validate_triggers has returned; with a validated trigger the best one is
\* executed
execute_trigger(validated) ==
    /\ pcQ = "validate"
    /\ executed' = IF validated THEN executed \cup {rq_request} ELSE executed
    /\ rq_request' = NoTriggerRequest
    /\ validating_since' = 0
    /\ pcQ' = "get"
    /\ UNCHANGED <<rq_counter, rq_queue, pcAdd, newer_requests, should_skip,
                   processed>>
    /\ UNCHANGED nonQueueVars

NextQueue ==
    \/ add_request
    \/ add_request_put
    \/ _process_queue
    \/ _should_skip_request
    \/ put_back
    \/ _process_request
    \/ \E validated \in BOOLEAN : execute_trigger(validated)

(***************************************************************************)
(* Properties                                                              *)
(***************************************************************************)

\* C1: a request that was no longer the latest issued one when the worker's
\* wait on its validations returned never has a trigger action executed
C1_SupersededNeverFires == \A r \in supersededAtWait : actionLog[r] = <<>>

\* T1 was superseded while it was validated and dropped; the later request executed
C1_Witness ==
    \E r \in supersededAtWait \cap discarded :
        \E r2 \in RequestIds : r2 > r /\ actionLog[r2] # <<>> /\ actionLog[r] = <<>>

\* C2 (as claimed): whenever a trigger action starts for a request, the request's
\* number equals _latest_request_number at that moment
C2_LatestAtActionStart ==
    [][actionLog' # actionLog => request.number = latest_request_number]_vars

\* C2 (amended): whenever a trigger action starts for a request, the request's
\* number was _latest_request_number at the re-check made after the wait
C2_LatestAtRecheck ==
    [][actionLog' # actionLog => request.number = latestAtCheck]_vars

\* an action ran for a request although a newer number had been issued after its re-check
C2_Witness ==
    /\ pcW = "cleanup"
    /\ actionLog[request.id] # <<>>
    /\ latestAtCheck = request.number
    /\ latest_request_number > request.number

\* C3: at most one trigger.action() invocation per admitted request
C3_AtMostOneAction == \A r \in RequestIds : Len(actionLog[r]) <= 1

\* both calls of a race of two start_assistant_mode() have returned
RaceOver == race /\ \A t \in CoordThreads : pcC[t] = "idle" /\ op[t] = "start"

\* one call returned True, the other returned False and did nothing
OneWinner ==
    \E w \in CoordThreads :
        /\ returned[w] = "True"
        /\ \A l \in CoordThreads \ {w} : returned[l] = "False" /\ ~effects[l]

C5_NeverParkedInTransitioning ==
    (pcMain = "running" /\ \A t \in CoordThreads : pcC[t] = "idle")
        => current_mode # "TRANSITIONING"

\* C6: once a start_session() has failed, the bus never holds
\* transcriber.send_audio more than once
C6_TranscriberRegisteredAtMostOnce ==
    session_start_failed => Count(send_audio, consumers) <= 1

\* the capture loop hands the chunk it holds to consumer c in this step
Invoked(c) == received'[c] > received[c]

\* the for loop over the snapshot is exhausted and stop() has not been called
DispatchComplete == pcL = "dispatch" /\ idx > Len(consumers_copy) /\ running

\* C7 (as claimed): once remove_consumer(c) has returned, c is not invoked
\* until it is added again
C7_NotInvokedAfterRemove ==
    [][\A c \in AllConsumers : Invoked(c) => removed[c] = "no"]_vars

\* C7 (amended): once remove_consumer(c) has removed the last registration of c,
\* c is in no snapshot taken afterwards: only the chunk being dispatched when
\* remove_consumer(c) returned can still reach c
C7_NotInLaterSnapshot ==
    [][\A c \in AllConsumers : Invoked(c) => removed[c] # "settled"]_vars

\* a chunk read after c was removed has been dispatched to another consumer, not to c
C7_Witness ==
    /\ DispatchComplete
    /\ \E c, d \in BusConsumers :
          /\ removed[c] = "settled"
          /\ received[c] = 0
          /\ received[d] = 1

\* C8 (as claimed): a consumer that raised on a chunk is not invoked for a later
\* chunk unless add_consumer registers it again
C8_FailedNeverInvokedAgain ==
    [][\A c \in AllConsumers : Invoked(c) => raised[c] \in {"no", "now", "cleared_now"}]_vars

\* C8 (amended): a consumer that raised on a chunk is not invoked for a later
\* chunk until add_consumer, remove_consumer or a resume_microphone that
\* restores it has dropped its failed mark
C8_FailedSkippedWhileMarked ==
    [][\A c \in AllConsumers : Invoked(c) => raised[c] # "earlier"]_vars

\* a later chunk has been dispatched and the consumer that raised earlier was skipped
C8_Witness ==
    /\ DispatchComplete
    /\ \E c \in BusConsumers :
          /\ raised[c] = "earlier"
          /\ c \in SeqToSet(consumers_copy)
          /\ received[c] = 0
    /\ \E d \in BusConsumers : received[d] = 1

\* C9: when a consumer raises on a chunk the loop goes on, and every consumer
\* of the snapshot that was not failed receives that chunk once per registration
C9_OthersStillReceive ==
    (raisedNow /\ running) =>
        /\ pcL \in {"dispatch", "mark"}
        /\ DispatchComplete =>
              \A d \in SeqToSet(consumers_copy) \ failed_copy :
                  received[d] = Count(d, consumers_copy)

\* the first consumer of the snapshot raised and the second one received the chunk
C9_Witness ==
    /\ DispatchComplete
    /\ raisedNow
    /\ Len(consumers_copy) = 2
    /\ raised[consumers_copy[1]] = "now"
    /\ consumers_copy[2] # consumers_copy[1]
    /\ received[consumers_copy[2]] = 1

\* a dispatched chunk went once per registration to every consumer of the
\* snapshot that was not failed, and to no other consumer
ExactlyOnce ==
    /\ \A c \in AllConsumers : received[c] <= Count(c, consumers_copy)
    /\ DispatchComplete =>
          \A c \in AllConsumers :
              received[c] = IF c \in failed_copy THEN 0 ELSE Count(c, consumers_copy)

\* C10 (as claimed): every chunk is passed exactly once to each registered,
\* non-failed consumer, and a consumer receives nothing after it was removed
C10_ExactlyOnceNothingAfterRemove ==
    [][/\ ExactlyOnce'
       /\ \A c \in AllConsumers : Invoked(c) => removed[c] \notin {"fresh", "settled"}]_vars

\* C10 (amended): every chunk is passed exactly once to each registered,
\* non-failed consumer; after its removal a consumer receives at most the chunk
\* that was being dispatched when it was removed
C10_ExactlyOnceOnlyInFlightAfterRemove ==
    [][/\ ExactlyOnce'
       /\ \A c \in AllConsumers :
             Invoked(c) /\ removed[c] \in {"fresh", "settled"}
                 => removed[c] = "fresh" /\ received'[c] <= Count(c, consumers_copy)]_vars

\* a chunk went once to a consumer registered once while a removed consumer got nothing
C10_Witness ==
    /\ DispatchComplete
    /\ \E c \in BusConsumers :
          /\ Count(c, consumers_copy) = 1
          /\ c \notin failed_copy
          /\ received[c] = 1
    /\ \E d \in BusConsumers :
          /\ removed[d] = "settled"
          /\ d \notin SeqToSet(consumers_copy)
          /\ received[d] = 0

\* entries of validated_triggers
Validated == {validated_list[i] : i \in 1..Len(validated_list)}

\* the entry of the trigger max() returned
BestEntry == CHOOSE x \in Validated : x.trigger = best_trigger

\* C11: of the candidates that validated in time, the one executed has the
\* highest priority, and the highest confidence among those of that priority:
\* priority decides before confidence
C11_HighestPriorityThenConfidence ==
    pcSel = "selected" =>
        \A x \in Validated :
            /\ added_triggers[x.trigger] <= added_triggers[best_trigger]
            /\ added_triggers[x.trigger] = added_triggers[best_trigger]
                   => x.confidence <= BestEntry.confidence

\* a lower-priority candidate with a higher confidence lost
C11_Witness ==
    /\ pcSel = "selected"
    /\ \E x \in Validated :
           /\ added_triggers[x.trigger] < added_triggers[best_trigger]
           /\ x.confidence > BestEntry.confidence

\* C12: among candidates of equal priority and equal confidence, the one
\* registered first by add_trigger is the one executed
C12_TieGoesToFirstRegistered ==
    pcSel = "selected" =>
        \A x \in Validated :
            (/\ added_triggers[x.trigger] = added_triggers[best_trigger]
             /\ x.confidence = BestEntry.confidence)
                => best_trigger <= x.trigger

\* C13: a candidate whose validation had not completed when wait() returned
\* is never selected or executed; the candidates that completed in time with
\* a result are considered and the best of them is the one executed
C13_OnlyCompletedInTime ==
    /\ best # "none" => best \in done /\ best \in best_candidates
    /\ pcW \in {"execute", "execute_original", "cleanup"} =>
           \A i \in 1..Len(actionLog[request.id]) : actionLog[request.id][i] = best

\* the higher-priority trigger validated after the timeout; the other is executed
C13_Witness ==
    /\ pcW = "cleanup"
    /\ Len(actionLog[request.id]) > 0
    /\ \E t \in SeqToSet(request.triggers) \ done :
           /\ future[request.id][t].state = "finished"
           /\ future[request.id][t].result # 0
           /\ priority[t] > priority[best]

\* the step with which the rollback of start_assistant_mode() returns False,
\* no other call being in progress
RollbackReturns(t) ==
    /\ pcC[t] = "r_notify" /\ pcC'[t] = "idle"
    /\ failure[t] \in {"context", "session", "callback"}
    /\ \A u \in CoordThreads \ {t} : pcC[u] = "idle"

\* C20: when start_assistant_mode() fails after the transcriber was paused, it
\* returns False with buffering stopped, the buffer empty, the transcriber
\* resumed and the mode back at Transcription
C20_RollbackRestoresTranscription ==
    [][\A t \in CoordThreads :
          RollbackReturns(t) =>
              /\ ~buffering'
              /\ transition_buffer' = <<>>
              /\ ~transcriber_paused'
              /\ current_mode' = "TRANSCRIPTION"]_vars

\* C14: while buffering is active the buffer holds at most 100 chunks, and
\* they are the most recent chunks captured since buffering began, in capture
\* order: when it is full the oldest chunk goes and the new one is appended
C14_BufferHoldsMostRecent ==
    buffering =>
        /\ Len(transition_buffer) <= TRANSITION_BUFFER_MAXSIZE
        /\ Len(transition_buffer) =
               IF captured - buffer_start < TRANSITION_BUFFER_MAXSIZE
               THEN captured - buffer_start
               ELSE TRANSITION_BUFFER_MAXSIZE
        /\ \A i \in 1..Len(transition_buffer) :
               transition_buffer[i] = captured - Len(transition_buffer) + i

\* the buffer is full and its oldest chunks have been dropped
C14_Witness ==
    /\ buffering
    /\ Len(transition_buffer) = TRANSITION_BUFFER_MAXSIZE
    /\ transition_buffer[1] > buffer_start + 1

\* the chunks the capture loop passed to a buffer_audio closure since the
\* current buffering began, in capture order
BufferedChunks ==
    SelectSeq([k \in 1..captured |-> k],
              LAMBDA k : k > buffer_start /\ delivered[k] \cap BufferConsumers # {})

\* the step with which start_assistant_mode() returns True
StartReturnsTrue(t) ==
    pcC[t] = "s_notify2" /\ pcC'[t] = "idle" /\ returned'[t] = "True"

\* C15: when start_assistant_mode() returns True the chunks buffered during the
\* transition have been passed to the session's send_audio in capture order,
\* at most 100 of them, and the transition buffer is empty
C15_FlushedOnSuccess ==
    [][\A t \in SwitchThreads :
          StartReturnsTrue(t) =>
              /\ transition_buffer' = <<>>
              /\ Len(flushed') <= TRANSITION_BUFFER_MAXSIZE
              /\ flushed' = BufferedChunks]_vars

\* the step with which a call that was admitted (it moved the mode to
\* TRANSITIONING) ends, no other call being in progress
TransitionEnds(t) ==
    /\ pcC[t] \notin {"idle", "cas"} /\ pcC'[t] = "idle"
    /\ \A u \in CoordThreads \ {t} : pcC[u] = "idle"

\* C16: in every transition the buffer is flushed or discarded, exactly once
\* and never both; only a successful start passes buffered chunks to the
\* session: a failed start and every end transition pass none
C16_FlushOrDiscardOnce ==
    [][\A t \in CoordThreads :
          TransitionEnds(t) =>
              /\ flushes' + discards' = 1
              /\ (op[t] = "end" \/ returned'[t] # "True") =>
                     flushes' = 0 /\ flushed' = <<>>]_vars

\* the chunks passed to the session: by the flush, then by the live consumer
SessionChunks == flushed \o live_audio

\* the first call of start_assistant_mode() has returned True after flushing,
\* realtime_audio.start() has attached the live consumer, the session is active
SwitchedToAssistant(t) ==
    /\ nCalls = 1 /\ op[t] = "start" /\ pcC[t] = "idle" /\ returned[t] = "True"
    /\ flushes = 1
    /\ input_active
    /\ session_active

\* C17: across a successful switch to the assistant without overflow, every
\* chunk captured once the transcription consumer was removed reaches the
\* session exactly once and in capture order: none goes to no consumer
C17_NoChunkLostInSwitch ==
    \A t \in SwitchThreads :
        SwitchedToAssistant(t) =>
            /\ \A k \in 1..captured :
                   send_audio \notin delivered[k] =>
                       /\ delivered[k] # {}
                       /\ Cardinality({i \in 1..Len(SessionChunks) : SessionChunks[i] = k}) = 1
            /\ \A i, j \in 1..Len(SessionChunks) :
                   i < j => SessionChunks[i] < SessionChunks[j]

\* C18: Disconnected is terminal and entered only by shutdown(): once
\* shutdown() has set it no operation changes the mode, and no step other than
\* the one of shutdown() moves the mode to Disconnected
C18_DisconnectedTerminal ==
    [][/\ (pcSd = "done" /\ current_mode = "DISCONNECTED") => current_mode' = "DISCONNECTED"
       /\ (current_mode # "DISCONNECTED" /\ current_mode' = "DISCONNECTED")
              => (pcSd = "sd_mode" /\ pcSd' = "done")]_vars

\* positions of a call between its move to TRANSITIONING and its write of the final mode
InFlightPcs ==
    {"s_notify", "s_buffer", "s_remove", "s_pause", "s_context", "s_session",
     "s_flush", "s_mode", "r_stop", "r_spawn", "r_mode",
     "e_notify", "e_buffer", "e_session", "e_resume", "e_add", "e_stop",
     "e_mode", "x_mode"}

\* C19: while a call is between its move to TRANSITIONING and its write of the
\* final mode, no other call enters its transition body and no step of
\* another thread writes the mode
C19_OneTransitionInFlight ==
    [][\A t \in CoordThreads :
          (pcC[t] \in InFlightPcs /\ failure[t] # "callback") =>
              /\ current_mode' # current_mode => pcC'[t] # pcC[t]
              /\ \A u \in CoordThreads \ {t} :
                     ~(pcC[u] = "cas" /\ pcC'[u] \in InFlightPcs)]_vars

\* C21: start_assistant_mode() and end_assistant_mode() never let an
\* exception reach the caller: every call ends with True or False
C21_NeverRaises ==
    \A t \in CoordThreads : returned[t] \in {"none", "True", "False"}

\* the step with which end_assistant_mode() returns True, no other call
\* being in progress
EndReturnsTrue(t) ==
    /\ op[t] = "end" /\ pcC[t] = "e_notify2" /\ pcC'[t] = "idle"
    /\ returned'[t] = "True"
    /\ \A u \in CoordThreads \ {t} : pcC[u] = "idle"

\* C22: when end_assistant_mode() returns True the mode is Transcription, the
\* session is not active, the transcriber is resumed, send_audio is registered
\* on the bus exactly once, no buffering consumer is registered and no chunk
\* buffered during the transition was sent to the session
C22_AfterEndReturnsTrue ==
    [][\A t \in CoordThreads :
          EndReturnsTrue(t) =>
              /\ current_mode' = "TRANSCRIPTION"
              /\ ~session_active'
              /\ ~transcriber_paused'
              /\ Count(send_audio, consumers') = 1
              /\ SeqToSet(consumers') \cap BufferConsumers = {}
              /\ flushes' = 0 /\ flushed' = <<>>]_vars

\* a step of resume_microphone() that leaves the paused state
ResumeStep ==
    /\ is_paused /\ ~is_paused'
    /\ pcS' = "idle"

C24_RemovedWhilePausedStaysRemoved ==
    [][/\ ResumeStep =>
             \A c \in SeqToSet(consumers') : removed[c] # "paused"
       /\ \A c \in AllConsumers :
             (~is_paused /\ received'[c] # received[c]) => removed[c] # "paused"]_vars

\* C25: stop() clears the consumer registries only after the capture loop has
\* stopped dispatching (no consumer call of the loop is in progress), and once
\* stop() has cleared them the loop begins no consumer call and no read
C25_ClearedAfterLoopStopped ==
    [][/\ (pcS = "join" /\ pcS' = "done") => pcL # "call"
       /\ pcS = "done" => (pcL' \in {"call", "snapshot"} => pcL' = pcL)]_vars

\* the request numbers held by a producer, by the queue or by the worker
HeldNumbers ==
    {pReq[p].number : p \in {q \in Producers : pcP[q] # "idle"}}
        \cup {request_queue[i].number : i \in 1..Len(request_queue)}
        \cup (IF request = NoRequest THEN {} ELSE {request.number})

\* C26: the number process_transcription issues is strictly larger than every
\* number issued before it, no two requests carry the same number, and
\* _latest_request_number is the largest number issued so far
C26_NumbersUniqueIncreasing ==
    [][/\ \A p \in Producers :
             (pcP[p] = "idle" /\ pcP'[p] = "cancel") =>
                 /\ pReq'[p].number > latest_request_number
                 /\ \A n \in HeldNumbers : pReq'[p].number > n
                 /\ latest_request_number' = pReq'[p].number
       /\ \A n \in HeldNumbers : n <= latest_request_number
       /\ \A p, q \in Producers :
             (p # q /\ pcP[p] # "idle" /\ pcP[q] # "idle") => pReq[p].number # pReq[q].number
       /\ \A i, j \in 1..Len(request_queue) :
             i # j => request_queue[i].number # request_queue[j].number
       /\ latest_request_number' >= latest_request_number]_vars

C26_Witness ==
    /\ latest_request_number = MaxRequests
    /\ \A p \in Producers : pcP[p] # "idle"
    /\ \E p \in Producers : pReq[p].number = MaxRequests

\* the request whose execution raised out of custom_execute: its action was
\* invoked, the worker has left it and its bookkeeping was never cleaned up
Abandoned(r) ==
    /\ actionLog[r] # <<>>
    /\ request.id # r
    /\ request_id_to_number[r] # 0

\* C27: an exception raised while a trigger is executed does not end the worker
\* loop: the worker thread is always at a position inside its loop, the failing
\* request leaves it at the queue with nothing in hand, and whenever it is at the
\* queue and a request is waiting, the dequeue step can be taken
C27_WorkerSurvivesActionError ==
    /\ pcW \in {"get", "submit", "store", "wait", "check", "collect",
                "execute", "execute_original", "cleanup"}
    /\ (\E r \in RequestIds : Abandoned(r)) =>
          /\ pcW = "get" => request = NoRequest
          /\ (pcW = "get" /\ request_queue # <<>>) => ENABLED _process_request_queue

C27_Witness ==
    \E r, n \in RequestIds :
        /\ Abandoned(r)
        /\ n > r
        /\ actionLog[n] # <<>>

\* C28: VoiceAssistant.stop() stops the audio intake before the validation
\* queue, the validation queue before it tears the session and the coordinator
\* down, and joins the threads after all of that
C28_ShutdownOrder ==
    [][/\ (executor_shutdown' /\ ~executor_shutdown) =>
             send_audio \notin SeqToSet(consumers)
       /\ (pcStop = "realtime" /\ pcStop' = "coordinator") =>
             (executor_shutdown /\ request_queue = <<>>)
       /\ (current_mode # "DISCONNECTED" /\ current_mode' = "DISCONNECTED") =>
             (executor_shutdown /\ request_queue = <<>>)
       /\ (pcStop # "done" /\ pcStop' = "done") =>
             (executor_shutdown /\ current_mode = "DISCONNECTED" /\ ~running)]_vars

\* TriggerManager.shutdown() has returned
ShutdownReturned == pcStop \in {"context", "audio", "done"}

\* C29: once TriggerManager.shutdown() has returned no trigger action is executed
C29_NoActionAfterShutdown ==
    [][ShutdownReturned => actionLog' = actionLog]_vars

\* C30: a VoiceAssistant.stop() that has begun completes, and so does the
\* TriggerManager.shutdown() it calls
C30_ShutdownTerminates ==
    /\ (pcStop # "idle") ~> (pcStop = "done")
    /\ (pcStop = "tm_queue") ~> ShutdownReturned

\* a request that left the queue without the worker starting on it: it was
\* issued, nobody holds it, its bookkeeping entry was never cleaned up and no
\* action ran for it
DroppedAtDequeue(n) ==
    /\ n \in 1..request_counter
    /\ n \notin HeldNumbers
    /\ request_id_to_number[n] = n
    /\ actionLog[n] = <<>>

\* the worker takes the head of the queue and the head is not the latest request
StaleDequeue ==
    /\ pcW = "get"
    /\ request_queue # <<>>
    /\ request_queue' = Tail(request_queue)
    /\ Head(request_queue).number < latest_request_number

\* C31: a dequeued request whose number is lower than the latest issued number
\* is dropped on the spot: the worker keeps nothing in hand, no validation is
\* submitted for it and no action runs for it, then or later; validations are
\* submitted and actions run only for the request the worker holds, and the
\* worker only ever takes hold of a request that is the latest when dequeued
C31_StaleDroppedAtDequeue ==
    [][/\ StaleDequeue =>
             /\ pcW' = "get" /\ request' = NoRequest
             /\ future' = future /\ actionLog' = actionLog
       /\ \A r \in RequestIds, t \in TriggerNames :
             (future'[r][t].state = "queued" /\ future[r][t].state # "queued") =>
                 request.id = r
       /\ \A r \in RequestIds : actionLog'[r] # actionLog[r] => request.id = r
       /\ (request' # request /\ request' # NoRequest) =>
             /\ request = NoRequest
             /\ request' = Head(request_queue)
             /\ request'.number = latest_request_number
       /\ \A n \in RequestIds :
             DroppedAtDequeue(n) => \A t \in TriggerNames : future[n][t] = NoFuture]_vars

C31_Witness ==
    \E n \in RequestIds :
        /\ DroppedAtDequeue(n)
        /\ request.number > n
        /\ actionLog[request.id] # <<>>

\* C32: a trigger is executed for a request only if no newer request was added
\* while its validations ran
C32_DiscardedWhenNewerArrived ==
    [][executed' # executed => rq_counter = validating_since]_vars

\* the admission test of process_transcription, read off the text and the flags
admits(text) ==
    LET clean == sanitize_text(text)
    IN /\ clean # <<>>
       /\ \E t \in TriggerNames : enabled[t] /\ check_keywords(t, clean)

transcriber_stop_called == pcSd \in {"sd_mode", "done"}

C35_NoTranscriberConsumerInAssistant ==
    (current_mode = "ASSISTANT" /\ \A t \in CoordThreads : pcC[t] = "idle") =>
        /\ send_audio \notin SeqToSet(consumers)
        /\ send_audio \notin SeqToSet(paused_consumers)

\* C36: a consumer registered by add_consumer while the microphone is paused
\* is still registered when resume_microphone has returned
C36_AddedWhilePausedKept ==
    [][(is_paused /\ ~is_paused') =>
          \A c \in SeqToSet(consumers) : c \in SeqToSet(consumers')]_vars

\* C37: when every start_assistant_mode/end_assistant_mode call has returned
\* and the mode is TRANSCRIPTION, ASSISTANT or DISCONNECTED, the buffering
\* flag is false and no buffer_audio closure is registered on the bus
C37_NoBufferingAtRest ==
    (/\ \A t \in CoordThreads : pcC[t] = "idle"
     /\ \E t \in CoordThreads : returned[t] # "none"
     /\ current_mode \in {"TRANSCRIPTION", "ASSISTANT", "DISCONNECTED"}) =>
        /\ ~buffering
        /\ SeqToSet(consumers) \cap BufferConsumers = {}

\* C38: the process callback is invoked on requests in strictly increasing
\* request_number order
C38_ProcessedInIncreasingOrder ==
    \A i, j \in 1..Len(processed) : i < j => processed[i] < processed[j]

\* C39: a thread that invokes the state listeners does not hold state_lock
C39_ListenersNotifiedWithoutLock ==
    \A t \in StateThreads : pcSm[t] \in {"tt_notify", "es_notify"} => state_lock # t

\* C40: transition_to moves current_state only to a state VALID_TRANSITIONS
\* lists for the current one; a request for any other state returns False and
\* leaves current_state, the transition history and error_count unchanged; no
\* transition_to leaves SHUTTING_DOWN
C40_OnlyValidTransitions ==
    [][\A t \in StateThreads :
         (pcSm[t] = "tt_lock" /\ pcSm'[t] # "tt_lock") =>
            IF sm_new[t] \in VALID_TRANSITIONS[current_state]
            THEN /\ current_state' = sm_new[t]
                 /\ current_state # "SHUTTING_DOWN"
                 /\ transitions' = Append(transitions, <<current_state, sm_new[t]>>)
            ELSE /\ UNCHANGED <<current_state, transitions, error_count>>
                 /\ sm_returned'[t] = "False"]_vars

\* a transition_to was accepted, and a later one, asking for a state that is
\* not a valid target of the state reached, returned False
C40_Witness ==
    \E t \in StateThreads :
        /\ pcSm[t] = "idle" /\ sm_method[t] = "transition_to"
        /\ sm_returned[t] = "False"
        /\ Len(transitions) = 1
        /\ transitions[1][2] = current_state
        /\ sm_new[t] \notin VALID_TRANSITIONS[current_state]

(***************************************************************************)
(* Specifications                                                          *)
(***************************************************************************)
Init == InitTrig /\ InitBus /\ InitCoord /\ InitSel /\ InitStop /\ InitQueue /\ InitAdmit /\ InitState

SpecTrig == Init /\ [][NextTrig]_vars

SpecWorker == Init /\ [][NextWorker]_vars

SpecIssue == Init /\ [][NextIssue]_vars

SpecBus == Init /\ [][NextBus]_vars

SpecCoord == Init /\ [][NextCoord]_vars

SpecSelect == Init /\ [][NextSelect]_vars

SpecBuffer == Init /\ [][NextBuffer]_vars

SpecSwitch == Init /\ [][NextSwitch]_vars

SpecLifecycle == Init /\ [][NextLifecycle]_vars

SpecStartShutdown == Init /\ [][NextStartShutdown]_vars

SpecPause == Init /\ [][NextPause]_vars

SpecStop == Init /\ [][NextStop]_vars

SpecQueue == Init /\ [][NextQueue]_vars

SpecAdmit == Init /\ [][NextAdmit]_vars

SpecState == Init /\ [][NextState]_vars

SpecShutdown == Init /\ [][NextShutdown]_vars

\* every thread keeps running; nothing makes a validation call return
SpecShutdownLive ==
    /\ Init /\ [][NextShutdown]_vars
    /\ WF_vars(StopThread) /\ WF_vars(WorkerThread) /\ WF_vars(PoolThreads)

====
